---- MODULE Spec2Model ----
(***************************************************************************)
(* The TTS evaluation scripts as a state machine.                          *)
(*                                                                         *)
(* The state is the content of the results directory (the generation log  *)
(* files and the evaluations file), the fields of the analyzer objects,    *)
(* and the position of the script that is running.  A behaviour is one run *)
(* of one entry point over one content of the results directory:           *)
(*   LatencyAnalyzer.run_analysis        (pc from "la_load")               *)
(*   PerformanceAnalyzer.run_analysis    (pc from "pa_load")               *)
(*   generate_markdown_report            (pc from "rep_load")              *)
(*   EvaluationInterface._load_latency_data (pc from "ui_load")            *)
(*   a session of the rating interface   (pc from "ui_init")               *)
(*   runs of AudioGenerator.generate_all (pc from "gen_idle")              *)
(* An exception that leaves a method ends the run: exc names it and pc     *)
(* stays at the method that raised it.                                     *)
(*                                                                         *)
(* Encoding of the JSON / Python values:                                   *)
(*   - a dict is a record; a key the dict lacks is not in its DOMAIN;      *)
(*   - a time is an integer number of time units;                          *)
(*   - None and NotNumber stand for Python's None and for a JSON string    *)
(*     found where a number is expected;                                   *)
(*   - a real number computed by the statistics module is the exact        *)
(*     fraction [num, den]; a standard deviation is carried as its square  *)
(*     (the variance), which decides every zero test and comparison.       *)
(***************************************************************************)
EXTENDS Integers, Sequences, FiniteSets, TLC

VARIABLES
    logFiles,             \* results/generation_log_*.json, in sorted order
    evalFile,             \* results/evaluations.json
    pc,                   \* position of the running script
    exc,                  \* the exception that ended the run, or "none"
    generation_logs,      \* LatencyAnalyzer.generation_logs
    evaluations,          \* LatencyAnalyzer.evaluations
    latency_data,         \* LatencyAnalyzer.latency_data
    total_time_data,      \* LatencyAnalyzer.total_time_data
    latency_by_language,  \* LatencyAnalyzer.latency_by_language
    cart_stats,           \* compare_latency / report: stats of Cartesia TTFB
    elev_stats,           \* compare_latency / report: stats of ElevenLabs TTFB
    cart_data,            \* correlation pairs (latency, quality) of Cartesia
    elev_data,            \* correlation pairs of ElevenLabs
    pa_evaluations,       \* PerformanceAnalyzer.evaluations
    ui_latency_data,      \* EvaluationInterface: result of _load_latency_data
    out,                  \* what was printed or appended to the report
    formatted,            \* the quartiles handed to a format specification
    cart_corr,            \* pearson_correlation(cart_data)
    elev_corr,            \* pearson_correlation(elev_data)
    wins,                 \* head-to-head tally over all evaluations
    total,                \* sum(wins.values())
    win_pct,              \* the percentages printed next to the tally
    by_category,          \* scores and tally of every category
    ui_evaluations,       \* EvaluationInterface.evaluations
    evaluated_test_ids,   \* EvaluationInterface.evaluated_test_ids
    test_cases,           \* EvaluationInterface.test_cases
    current_index,        \* EvaluationInterface.current_index
    save_status,          \* the status box: result of the last save
    display,              \* the fields _update_display filled last
    audio_files,          \* outputs/<provider>/<provider>_<test_id>.mp3
    gen_args,             \* arguments and configuration of generate_all
    results,              \* generate_all: the results dict being filled
    position,             \* generate_all: <<test case, provider>> reached
    api_calls,            \* generate_and_save calls of the running call
    raised,               \* exceptions generate_all caught, by provider
    now,                  \* the clock, in seconds
    returned,             \* the results every finished call returned
    generation_log_files  \* results/generation_log_<stamp>.json, by stamp

vars == <<logFiles, evalFile, pc, exc, generation_logs, evaluations,
          latency_data, total_time_data, latency_by_language, cart_stats,
          elev_stats, cart_data, elev_data, pa_evaluations, ui_latency_data,
          out, formatted, cart_corr, elev_corr, wins, total, win_pct,
          by_category, ui_evaluations, evaluated_test_ids, test_cases,
          current_index, save_status, display, audio_files, gen_args,
          results, position, api_calls, raised, now, returned,
          generation_log_files>>

\* the state of the analyzers and of the report
analysisVars == <<generation_logs, evaluations, latency_data, total_time_data,
                  latency_by_language, cart_stats, elev_stats, cart_data,
                  elev_data, pa_evaluations, formatted, cart_corr, elev_corr,
                  wins, total, win_pct, by_category>>

\* the state of the rating interface
uiVars == <<ui_evaluations, evaluated_test_ids, test_cases, current_index,
            save_status, display>>

\* the state of the audio generator
genVars == <<audio_files, gen_args, results, position, api_calls, raised, now,
             returned, generation_log_files>>

(***************************************************************************)
(* Bounds of the model.                                                    *)
(***************************************************************************)
MaxTime == 1        \* times in a log entry are 0 .. MaxTime
MaxSamples == 4     \* entries of one provider in a log of plain entries
MaxEvals == 3       \* records in the evaluations file
MaxLatency == 3     \* latencies in an evaluation record are 1 .. MaxLatency
ManyEvals == 16     \* records of a file whose criterion means differ a little
MaxTests == 2       \* test cases with audio the rating interface loads
MaxRuns == 2        \* runs of generate_all

(***************************************************************************)
(* Python values.                                                          *)
(***************************************************************************)
None == -1
NotNumber == -2

Providers == <<"cartesia", "elevenlabs">>
ProviderSet == {"cartesia", "elevenlabs"}

EmptyDict == [k \in {} |-> 0]

\* dict.get(key): the value, or None when the key is missing
Get(d, k) == IF k \in DOMAIN d THEN d[k] ELSE None

\* truth value of a time read from JSON: None and 0 are false, a non-empty
\* string and every other number are true
Truthy(v) == v # None /\ v # 0

\* Python's "a or b"
Or(a, b) == IF Truthy(a) THEN a ELSE b

\* a test id that is a JSON number and not a string
NonStringId == "<number>"

\* str.startswith on the test ids of the model
startswith(test_id, c) ==
    CASE c = "E" -> test_id \in {"E1", "E2"}
      [] c = "D" -> test_id \in {"D1"}
      [] c = "C" -> test_id \in {"C1"}
      [] c = "J" -> test_id \in {"J1"}
      [] OTHER -> FALSE

(***************************************************************************)
(* Exact fractions.                                                        *)
(***************************************************************************)
Rat(n, d) == [num |-> n, den |-> d]
NoneRat == Rat(0, 0)                \* None in a place that holds a fraction
IsNone(q) == q.den = 0
TruthyRat(q) == q.den # 0 /\ q.num # 0

RECURSIVE Sum(_)
Sum(s) == IF s = <<>> THEN 0 ELSE Head(s) + Sum(Tail(s))

RECURSIVE SumSq(_)
SumSq(s) == IF s = <<>> THEN 0 ELSE Head(s) * Head(s) + SumSq(Tail(s))

RECURSIVE Insert(_, _)
Insert(x, s) ==
    IF s = <<>> THEN <<x>>
    ELSE IF x <= Head(s) THEN <<x>> \o s
    ELSE <<Head(s)>> \o Insert(x, Tail(s))

RECURSIVE sorted(_)
sorted(s) == IF s = <<>> THEN <<>> ELSE Insert(Head(s), sorted(Tail(s)))

\* the statistics module raises TypeError on a value that is not a number
HasNotNumber(values) == \E i \in 1..Len(values) : values[i] = NotNumber

\* statistics.mean raises StatisticsError on an empty sample
mean_raises(values) == values = <<>>
statistics_mean(values) == Rat(Sum(values), Len(values))

\* a median that forgets to halve the sum of the two middle values
statistics_median_unhalved(values) ==
    LET data == sorted(values)
        n == Len(values)
    IN  IF n % 2 = 1 THEN Rat(data[(n \div 2) + 1], 1)
        ELSE Rat(data[n \div 2] + data[(n \div 2) + 1], 1)

\* statistics.median
statistics_median(values) ==
    LET data == sorted(values)
        n == Len(values)
    IN  IF n % 2 = 1 THEN Rat(data[(n \div 2) + 1], 1)
        ELSE Rat(data[n \div 2] + data[(n \div 2) + 1], 2)

\* statistics.stdev raises StatisticsError on fewer than two values
stdev_raises(values) == Len(values) < 2
\* the square of statistics.stdev: sum((x - mean)^2) / (n - 1)
statistics_stdev(values) ==
    LET n == Len(values)
    IN  Rat(n * SumSq(values) - Sum(values) * Sum(values), n * (n - 1))

\* statistics.quantiles(values, n=4), method "exclusive"
statistics_quantiles(values) ==
    LET data == sorted(values)
        ld == Len(values)
        m == ld + 1
        cut(i) ==
            LET j0 == (i * m) \div 4
                j == IF j0 < 1 THEN 1 ELSE IF j0 > ld - 1 THEN ld - 1 ELSE j0
                delta == i * m - j * 4
            IN  Rat(data[j] * (4 - delta) + data[j + 1] * delta, 4)
    IN  <<cut(1), cut(2), cut(3)>>

\* compute_statistics without the guard on the empty sample: a result filled
\* with zeros
compute_statistics_zero_filled(values) ==
    [count |-> Len(values),
     mean |-> IF values = <<>> THEN Rat(0, 1) ELSE statistics_mean(values),
     median |-> IF values = <<>> THEN Rat(0, 1) ELSE statistics_median(values),
     stdev |-> IF Len(values) > 1 THEN statistics_stdev(values) ELSE Rat(0, 1),
     min |-> IF values = <<>> THEN 0 ELSE sorted(values)[1],
     max |-> IF values = <<>> THEN 0 ELSE sorted(values)[Len(values)],
     p25 |-> IF Len(values) >= 4 THEN statistics_quantiles(values)[1]
             ELSE NoneRat,
     p75 |-> IF Len(values) >= 4 THEN statistics_quantiles(values)[3]
             ELSE NoneRat]

\* LatencyAnalyzer.compute_statistics
compute_statistics(values) ==
    IF values = <<>> THEN EmptyDict
    ELSE [count |-> Len(values),
          mean |-> statistics_mean(values),
          median |-> statistics_median(values),
          stdev |-> IF Len(values) > 1 THEN statistics_stdev(values)
                    ELSE Rat(0, 1),
          min |-> sorted(values)[1],
          max |-> sorted(values)[Len(values)],
          p25 |-> IF Len(values) >= 4 THEN statistics_quantiles(values)[1]
                  ELSE NoneRat,
          p75 |-> IF Len(values) >= 4 THEN statistics_quantiles(values)[3]
                  ELSE NoneRat]

(***************************************************************************)
(* The content of the results directory.                                   *)
(***************************************************************************)
SeqsUpTo(S, n) == UNION {[1..k -> S] : k \in 0..n}

\* a file that json.load rejects, and a file that does not exist
InvalidJson == [invalid_json |-> TRUE]
MissingFile == [missing |-> TRUE]
json_load_raises(f) == "invalid_json" \in DOMAIN f

NoStatus == "<no status>"

\* one entry of results[provider] in a generation log; a time that is None
\* and a status that is NoStatus are keys the entry does not have
MkEntry(status, test_id, ttfb, total_time, generation_time) ==
    (IF status = NoStatus THEN EmptyDict ELSE [status |-> status])
    @@ [test_id |-> test_id]
    @@ (IF ttfb = None THEN EmptyDict ELSE [ttfb |-> ttfb])
    @@ (IF total_time = None THEN EmptyDict ELSE [total_time |-> total_time])
    @@ (IF generation_time = None THEN EmptyDict
        ELSE [generation_time |-> generation_time])

\* the entries the two clients write for a successful generation
CartesiaSuccess(test_id, t) == MkEntry("success", test_id, t, t, t)
ElevenLabsSuccess(test_id, t) == MkEntry("success", test_id, None, None, t)

Times0 == {None} \cup (0..MaxTime)
Statuses == {"success", "error", "skipped", NoStatus}
EntryIds == {"E1", "D1", "X9", NonStringId}

\* entries of every schema and of every defect the analyzers can meet
RichEntries ==
    {MkEntry("success", "E1", t, u, g) : t \in Times0, u \in Times0, g \in Times0}
    \cup {MkEntry("success", "E1", NotNumber, None, None)}
    \cup {MkEntry(s, id, None, None, MaxTime) : s \in Statuses, id \in EntryIds}

GoodCartesia == CartesiaSuccess("E2", 1)
GoodElevenLabs == ElevenLabsSuccess("E2", 1)
PlainFile == [cartesia |-> <<GoodCartesia>>, elevenlabs |-> <<GoodElevenLabs>>]

RichFiles ==
    {[cartesia |-> c, elevenlabs |-> e] :
        c \in UNION {{<<r>>, <<r, GoodCartesia>>, <<GoodCartesia, r>>} :
                        r \in RichEntries},
        e \in {<<>>, <<GoodElevenLabs>>}}

\* at most one file of rich entries, before or after an invalid or plain file
RichLogs ==
    {<<>>, <<InvalidJson>>, <<PlainFile>>}
    \cup UNION {{<<f>>, <<f, g>>, <<g, f>>} :
                    f \in RichFiles, g \in {InvalidJson, PlainFile}}

\* one file of plain entries: samples of every size up to MaxSamples
PlainTimes == {1, MaxTime + 1}
BulkLogs ==
    {<<[cartesia |-> [i \in DOMAIN c |-> CartesiaSuccess("E1", c[i])],
        elevenlabs |-> [i \in DOMAIN e |-> ElevenLabsSuccess("E1", e[i])]]>> :
        c \in SeqsUpTo(PlainTimes, MaxSamples),
        e \in SeqsUpTo(PlainTimes, MaxSamples)}

criteria == <<"pronunciation_accuracy", "prosody", "emotional_appropriateness",
              "naturalness", "consistency">>

\* the score block save_evaluation writes for one provider
ScoreBlock(p, r, e, n, c) ==
    [pronunciation_accuracy |-> p, prosody |-> r,
     emotional_appropriateness |-> e, naturalness |-> n, consistency |-> c,
     average_score |-> Rat(p + r + e + n + c, 5)]

\* one record of the evaluations file
MkEval(test_id, category, latency, cartesia, elevenlabs, winner) ==
    [test_id |-> test_id, category |-> category, latency |-> latency,
     cartesia |-> cartesia, elevenlabs |-> elevenlabs,
     comparison |-> [winner |-> winner]]

EvalIds == {"E1", "E2", "D1"}
EvalRecords ==
    {MkEval(id, "heteronyms", [cartesia |-> 2, elevenlabs |-> 1],
            ScoreBlock(s, s, s, s, s), ScoreBlock(3, 3, 3, 3, 3),
            IF s > 3 THEN "Cartesia" ELSE "Eleven Labs") :
        id \in EvalIds, s \in {2, 4}}

EvalFiles ==
    {MissingFile, InvalidJson}
    \cup {[records |-> r] : r \in SeqsUpTo(EvalRecords, MaxEvals)}

TwoEvals ==
    [records |-> <<MkEval("E1", "heteronyms", [cartesia |-> 2, elevenlabs |-> 1],
                          ScoreBlock(4, 4, 4, 4, 4), ScoreBlock(3, 3, 3, 3, 3),
                          "Cartesia"),
                   MkEval("E2", "heteronyms", [cartesia |-> 2, elevenlabs |-> 1],
                          ScoreBlock(2, 2, 2, 2, 2), ScoreBlock(3, 3, 3, 3, 3),
                          "Eleven Labs")>>]

\* the test ids save_evaluation gives to successive records: one record per
\* test id
EvalIdSeq == <<"E1", "E2", "D1", "C1", "J1">>

\* evaluations whose Cartesia latency and score vary from record to record:
\* the samples of the latency / quality correlation
CorrPoints == {<<l, s>> : l \in 1..MaxLatency, s \in {2, 4}}
CorrFiles ==
    {[records |->
        [i \in DOMAIN pts |->
            MkEval(EvalIdSeq[i], "heteronyms",
                   [cartesia |-> pts[i][1], elevenlabs |-> 1],
                   ScoreBlock(pts[i][2], pts[i][2], pts[i][2], pts[i][2],
                              pts[i][2]),
                   ScoreBlock(3, 3, 3, 3, 3), "Tie")]] :
        pts \in SeqsUpTo(CorrPoints, MaxEvals)}

\* latency blocks of every shape: no Cartesia latency, a legacy key, a
\* TTFB-suffixed key, both; null, zero, a number, a string that is no number
LatencyBlocks ==
    {b @@ [elevenlabs |-> 1] :
        b \in {EmptyDict}
              \cup {[cartesia |-> v] : v \in {None, NotNumber, 0, 1}}
              \cup {[cartesia_ttfb |-> t] : t \in {NotNumber, 0, 1}}
              \cup {[cartesia_ttfb |-> t, cartesia |-> 2] :
                       t \in {NotNumber, 0, 1}}}

\* a record without the key k
Without(r, k) == [x \in DOMAIN r \ {k} |-> r[x]]

GoodEval ==
    MkEval("E1", "heteronyms", [cartesia |-> 2, elevenlabs |-> 1],
           ScoreBlock(4, 4, 4, 4, 4), ScoreBlock(3, 3, 3, 3, 3), "Cartesia")

DefectEval(block) ==
    MkEval("E2", "heteronyms", block, ScoreBlock(2, 2, 2, 2, 2),
           ScoreBlock(3, 3, 3, 3, 3), "Eleven Labs")

\* one record with a latency block of any shape, or without the block, alone
\* or next to a plain record
DefectFiles ==
    UNION {{[records |-> <<r>>], [records |-> <<r, GoodEval>>],
            [records |-> <<GoodEval, r>>]} :
              r \in {DefectEval(b) : b \in LatencyBlocks}
                    \cup {Without(DefectEval([elevenlabs |-> 1]), "latency")}}

\* a record whose Cartesia block has no average_score
NoScoreEval ==
    [DefectEval([cartesia |-> 1, elevenlabs |-> 1])
        EXCEPT !.cartesia = Without(@, "average_score")]
NoScoreFiles ==
    {[records |-> <<NoScoreEval>>], [records |-> <<NoScoreEval, GoodEval>>],
     [records |-> <<GoodEval, NoScoreEval>>]}

\* the values of comparison.winner (the choices of the rating form)
Outcomes == {"Cartesia", "Eleven Labs", "Tie"}

\* evaluations of two categories with every winner; Cartesia always has the
\* higher average score
TallyPoints == {<<c, w>> : c \in {"heteronyms", "numbers"}, w \in Outcomes}
TallyFiles ==
    {[records |->
        [i \in DOMAIN pts |->
            MkEval(EvalIdSeq[i], pts[i][1], [cartesia |-> 2, elevenlabs |-> 1],
                   ScoreBlock(4, 4, 4, 4, 4), ScoreBlock(3, 3, 3, 3, 3),
                   pts[i][2])]] :
        pts \in SeqsUpTo(TallyPoints, MaxEvals)}

\* ManyEvals evaluations of which the first k rate the pronunciation of one
\* provider 4 and of the other 3, and all the rest is rated 3: the means of
\* the criterion differ by k / ManyEvals
CriteriaFiles ==
    {[records |->
        [i \in 1..ManyEvals |->
            MkEval("N" \o ToString(i), "numbers",
                   [cartesia |-> 2, elevenlabs |-> 1],
                   ScoreBlock(IF i <= k /\ higher = "cartesia" THEN 4 ELSE 3,
                              3, 3, 3, 3),
                   ScoreBlock(IF i <= k /\ higher = "elevenlabs" THEN 4 ELSE 3,
                              3, 3, 3, 3),
                   "Tie")]] :
        k \in 0..ManyEvals, higher \in ProviderSet}

(***************************************************************************)
(* The rating interface: what the rater enters and what is saved.          *)
(***************************************************************************)
\* the category of a test case
CategoryOf(test_id) == IF test_id = "E1" THEN "heteronyms" ELSE "numbers"

\* the sliders and the radio when nothing was rated: all 3, "Tie"
DefaultForm == [cartesia |-> <<3, 3, 3, 3, 3>>, elevenlabs |-> <<3, 3, 3, 3, 3>>,
                winner |-> "Tie"]

\* what a rater can set the sliders (1 to 5) and the radio to
RatingForms ==
    {DefaultForm,
     [cartesia |-> <<5, 5, 5, 5, 5>>, elevenlabs |-> <<1, 1, 1, 1, 1>>,
      winner |-> "Cartesia"],
     [cartesia |-> <<1, 2, 3, 4, 5>>, elevenlabs |-> <<5, 4, 4, 4, 4>>,
      winner |-> "Eleven Labs"]}

\* f"{latency:.2f}s" if latency else "N/A", for a whole number of seconds
LatencyString(latency) ==
    IF Truthy(latency) THEN ToString(latency) \o ".00s" ELSE "N/A"

\* the marks _update_display appends when both latencies are known
LatencyMarks == {"", " faster", " slower"}

\* the two latency fields of the display
LatencyDisplay(c_latency, e_latency) ==
    IF Truthy(c_latency) /\ Truthy(e_latency)
    THEN [cartesia |-> LatencyString(c_latency)
                       \o (IF c_latency < e_latency THEN " faster"
                           ELSE " slower"),
          elevenlabs |-> LatencyString(e_latency)
                         \o (IF e_latency < c_latency THEN " faster"
                             ELSE " slower")]
    ELSE [cartesia |-> LatencyString(c_latency),
          elevenlabs |-> LatencyString(e_latency)]

\* parse_latency: None for "" and "N/A", else the number before the first
\* "s", None when that is no number
parse_latency(latency_str) ==
    IF latency_str = "" \/ latency_str = "N/A" THEN None
    ELSE LET numbers == {t \in 0..(MaxTime + 1) :
                            \E m \in LatencyMarks :
                                latency_str = ToString(t) \o ".00s" \o m}
         IN  IF numbers = {} THEN None ELSE CHOOSE t \in numbers : TRUE

\* "cartesia" if (c or 999) < (e or 999) else "elevenlabs" if e else None;
\* None is written "null" in this field, whose other values are strings
FasterField(c, e) ==
    IF Or(c, 999) < Or(e, 999) THEN "cartesia"
    ELSE IF Truthy(e) THEN "elevenlabs"
    ELSE "null"

\* a record whose average is taken over four criteria
evaluation_average_of_four(test_id, category, c_display, e_display, form) ==
    LET c == parse_latency(c_display)
        e == parse_latency(e_display)
        Block(v) == [ScoreBlock(v[1], v[2], v[3], v[4], v[5])
                       EXCEPT !.average_score = Rat(Sum(v), 4)]
    IN  MkEval(test_id, category,
               [cartesia |-> c, elevenlabs |-> e, faster |-> FasterField(c, e)],
               Block(form.cartesia), Block(form.elevenlabs), form.winner)

\* the dict save_evaluation builds (text, timestamp and notes are strings no
\* operation reads; they are left out)
evaluation(test_id, category, c_display, e_display, form) ==
    LET c == parse_latency(c_display)
        e == parse_latency(e_display)
        Block(v) == ScoreBlock(v[1], v[2], v[3], v[4], v[5])
    IN  MkEval(test_id, category,
               [cartesia |-> c, elevenlabs |-> e, faster |-> FasterField(c, e)],
               Block(form.cartesia), Block(form.elevenlabs), form.winner)

\* a record an earlier session saved for a test without latency
SavedRecord(test_id, form) ==
    evaluation(test_id, CategoryOf(test_id), "N/A", "N/A", form)

FormA == CHOOSE f \in RatingForms : f.winner = "Cartesia"
FormB == CHOOSE f \in RatingForms : f.winner = "Eleven Labs"

\* evaluations files without a repeated test id
UniqueIdFiles ==
    {[records |-> <<SavedRecord("E1", FormA)>>],
     [records |-> <<SavedRecord("E2", FormA), SavedRecord("E1", FormB)>>],
     [records |-> <<SavedRecord("J1", FormA)>>]}

\* evaluations files in which a test id occurs twice
DuplicateIdFiles ==
    {[records |-> <<SavedRecord("E1", FormA), SavedRecord("E1", FormB)>>],
     [records |-> <<SavedRecord("E1", FormA), SavedRecord("E2", FormA),
                    SavedRecord("E1", FormB)>>]}

\* evaluations files of the analyzers in which the test E1 was saved twice,
\* the second time with other latencies, scores and winner
FirstOfTwo ==
    MkEval("E1", "heteronyms", [cartesia |-> 3, elevenlabs |-> 1],
           ScoreBlock(5, 5, 5, 5, 5), ScoreBlock(1, 1, 1, 1, 1), "Cartesia")
LastOfTwo ==
    MkEval("E1", "heteronyms", [cartesia |-> 1, elevenlabs |-> 2],
           ScoreBlock(2, 2, 2, 2, 2), ScoreBlock(4, 4, 4, 4, 4), "Eleven Labs")
OtherTest ==
    MkEval("E2", "heteronyms", [cartesia |-> 2, elevenlabs |-> 1],
           ScoreBlock(3, 3, 3, 3, 3), ScoreBlock(3, 3, 3, 3, 3), "Tie")
RepeatedIdFiles ==
    {[records |-> <<FirstOfTwo, LastOfTwo>>],
     [records |-> <<FirstOfTwo, OtherTest, LastOfTwo>>],
     [records |-> <<OtherTest, FirstOfTwo, LastOfTwo>>]}

\* a file whose only record has no test_id
NoIdFile == [records |-> <<Without(SavedRecord("E1", FormA), "test_id")>>]

\* the evaluations file a session of the rating interface can find
UiEvalFiles ==
    {MissingFile, InvalidJson, NoIdFile} \cup UniqueIdFiles
    \cup DuplicateIdFiles

\* the output directories before the first run: empty, or holding one file
InitialAudio == {{}, {<<"cartesia", "E1">>}}

\* no exception caught yet
NoneRaised == [p \in ProviderSet |-> 0]

\* the display when there is no current test
NoDisplay == [test_id |-> "", category |-> "", cartesia_latency |-> "",
              elevenlabs_latency |-> "", done |-> FALSE, form |-> DefaultForm]

EmptyData == [cartesia |-> <<>>, elevenlabs |-> <<>>]

\* a local variable that was not assigned yet
Unset == [unset |-> TRUE]

Init ==
    /\ \/ /\ pc \in {"la_load", "rep_load", "ui_load"}
          /\ logFiles \in RichLogs
          /\ evalFile = TwoEvals
       \/ /\ pc \in {"la_load", "rep_load"}
          /\ logFiles \in BulkLogs
          /\ evalFile = TwoEvals
       \/ /\ pc \in {"la_load", "pa_load", "rep_load"}
          /\ logFiles \in {<<>>, <<PlainFile>>}
          /\ evalFile \in EvalFiles
       \/ /\ pc \in {"la_load", "rep_load"}
          /\ logFiles = <<PlainFile>>
          /\ evalFile \in CorrFiles \cup DefectFiles
       \/ /\ pc = "la_load"
          /\ logFiles = <<PlainFile>>
          /\ evalFile \in NoScoreFiles
       \/ /\ pc \in {"pa_load", "rep_load"}
          /\ logFiles = <<PlainFile>>
          /\ evalFile \in TallyFiles \cup CriteriaFiles
       \/ /\ pc \in {"la_load", "pa_load", "rep_load"}
          /\ logFiles = <<PlainFile>>
          /\ evalFile \in RepeatedIdFiles
       \/ /\ pc = "ui_init"
          /\ logFiles \in {<<>>, <<PlainFile>>}
          /\ evalFile \in UiEvalFiles
       \/ /\ pc = "gen_idle"
          /\ logFiles = <<>>
          /\ evalFile = MissingFile
    /\ exc = "none"
    /\ generation_logs = <<>>
    /\ evaluations = <<>>
    /\ latency_data = EmptyData
    /\ total_time_data = EmptyData
    /\ latency_by_language = EmptyDict
    /\ cart_stats = Unset
    /\ elev_stats = Unset
    /\ cart_data = <<>>
    /\ elev_data = <<>>
    /\ pa_evaluations = <<>>
    /\ ui_latency_data = [cartesia |-> EmptyDict, elevenlabs |-> EmptyDict]
    /\ out = {}
    /\ formatted = {}
    /\ cart_corr = Unset
    /\ elev_corr = Unset
    /\ wins = Unset
    /\ total = Unset
    /\ win_pct = Unset
    /\ by_category = Unset
    /\ ui_evaluations = <<>>
    /\ evaluated_test_ids = {}
    /\ test_cases = <<>>
    /\ current_index = 0
    /\ save_status = <<>>
    /\ display = NoDisplay
    /\ audio_files \in IF pc = "gen_idle" THEN InitialAudio ELSE {{}}
    /\ gen_args = Unset
    /\ results = Unset
    /\ position = <<1, 1>>
    /\ api_calls = 0
    /\ raised = NoneRaised
    /\ now = 0
    /\ returned = <<>>
    /\ generation_log_files = EmptyDict

\* an exception leaves the running method and ends the script: the position
\* stays where it was raised and no further step is taken
Raise(e) == pc' = pc /\ exc' = e

(***************************************************************************)
(* LatencyAnalyzer                                                         *)
(***************************************************************************)

\* the files load_data reads before the first one json.load rejects
RECURSIVE LoadedLogs(_)
LoadedLogs(files) ==
    IF files = <<>> \/ json_load_raises(Head(files)) THEN <<>>
    ELSE <<Head(files)>> \o LoadedLogs(Tail(files))

\* LatencyAnalyzer.load_data: the fields it leaves and the exception, if any
LatencyAnalyzer_load_data(files, ef) ==
    LET logs == LoadedLogs(files)
    IN  IF Len(logs) < Len(files)
        THEN [generation_logs |-> logs, evaluations |-> <<>>,
              exc |-> "JSONDecodeError"]
        ELSE IF "missing" \in DOMAIN ef
        THEN [generation_logs |-> logs, evaluations |-> <<>>, exc |-> "none"]
        ELSE IF json_load_raises(ef)
        THEN [generation_logs |-> logs, evaluations |-> <<>>,
              exc |-> "JSONDecodeError"]
        ELSE [generation_logs |-> logs, evaluations |-> ef.records,
              exc |-> "none"]

\* language of a test id (extract_latency_data)
LanguageOf(test_id) ==
    IF startswith(test_id, "E") THEN "en"
    ELSE IF startswith(test_id, "D") THEN "de"
    ELSE IF startswith(test_id, "C") THEN "zh"
    ELSE IF startswith(test_id, "J") THEN "ja"
    ELSE "unknown"

\* an append that keeps no bucket for a test id of no known language
AppendByKnownLanguage(byLang, language, provider, v) ==
    IF language = "unknown" THEN byLang
    ELSE [l \in DOMAIN byLang \cup {language} |->
            IF l = language
            THEN [(IF l \in DOMAIN byLang THEN byLang[l] ELSE EmptyData)
                    EXCEPT ![provider] = Append(@, v)]
            ELSE byLang[l]]

\* defaultdict access latency_by_language[language][provider].append(v)
AppendByLanguage(byLang, language, provider, v) ==
    LET cur == IF language \in DOMAIN byLang THEN byLang[language]
               ELSE EmptyData
    IN  [l \in DOMAIN byLang \cup {language} |->
            IF l = language THEN [cur EXCEPT ![provider] = Append(@, v)]
            ELSE byLang[l]]

\* the body of the loop over the entries of one provider
ExtractEntry(acc, provider, entry) ==
    IF "status" \notin DOMAIN entry THEN [acc EXCEPT !.exc = "KeyError: 'status'"]
    ELSE IF entry.status # "success" THEN acc
    ELSE
        LET ttfb == Or(Get(entry, "ttfb"), Get(entry, "generation_time"))
            total_time == Or(Get(entry, "total_time"),
                             Get(entry, "generation_time"))
            a1 == [acc EXCEPT
                     !.latency_data[provider] =
                         IF Truthy(ttfb) THEN Append(@, ttfb) ELSE @,
                     !.total_time_data[provider] =
                         IF Truthy(total_time) THEN Append(@, total_time)
                         ELSE @]
            test_id == IF "test_id" \in DOMAIN entry THEN entry.test_id ELSE ""
        IN  IF test_id = NonStringId THEN [a1 EXCEPT !.exc = "AttributeError: startswith"]
            ELSE IF Truthy(ttfb)
            THEN [a1 EXCEPT !.latency_by_language =
                     AppendByLanguage(@, LanguageOf(test_id), provider, ttfb)]
            ELSE a1

RECURSIVE ExtractEntries(_, _, _)
ExtractEntries(acc, provider, entries) ==
    IF entries = <<>> \/ acc.exc # "none" THEN acc
    ELSE ExtractEntries(ExtractEntry(acc, provider, Head(entries)), provider,
                        Tail(entries))

ExtractLog(acc, log) ==
    LET a1 == IF "cartesia" \in DOMAIN log
              THEN ExtractEntries(acc, "cartesia", log.cartesia) ELSE acc
    IN  IF "elevenlabs" \in DOMAIN log
        THEN ExtractEntries(a1, "elevenlabs", log.elevenlabs) ELSE a1

RECURSIVE ExtractLogs(_, _)
ExtractLogs(acc, logs) ==
    IF logs = <<>> \/ acc.exc # "none" THEN acc
    ELSE ExtractLogs(ExtractLog(acc, Head(logs)), Tail(logs))

\* LatencyAnalyzer.extract_latency_data on a fresh analyzer
extract_latency_data(logs) ==
    ExtractLogs([latency_data |-> EmptyData, total_time_data |-> EmptyData,
                 latency_by_language |-> EmptyDict, exc |-> "none"], logs)

\* a / b > c / d and a / b < c / d for fractions with positive denominators
RatGt(a, b) == a.num * b.den > b.num * a.den
RatLt(a, b) == a.num * b.den < b.num * a.den

\* stdev / mean < k/10 * stdev / mean, decided on the squares
CvLess(sa, sb, k) ==
    sa.stdev.num * sa.mean.den * sa.mean.den * sb.stdev.den
        * sb.mean.num * sb.mean.num * 100
    < k * k * sb.stdev.num * sb.mean.den * sb.mean.den * sa.stdev.den
        * sa.mean.num * sa.mean.num

StatKeys == {"count", "mean", "median", "stdev", "min", "max"}

\* the lines compare_latency prints for one provider
ProviderLines(p, stats) ==
    {<<"la", k, p>> : k \in StatKeys}
    \cup (IF TruthyRat(stats.p25) THEN {<<"la", "p25", p>>, <<"la", "p75", p>>}
          ELSE {})

\* the winner lines of compare_latency
WinnerLines(cs, es) ==
    IF TruthyRat(cs.mean) /\ TruthyRat(es.mean)
    THEN {<<"la", "faster",
            IF RatGt(cs.mean, es.mean) THEN "ElevenLabs" ELSE "Cartesia">>,
          <<"la", "more_consistent",
            IF CvLess(cs, es, 10) THEN "Cartesia" ELSE "ElevenLabs">>}
    ELSE {}

TotalLines(ct, et) ==
    IF DOMAIN ct # {} /\ DOMAIN et # {}
       /\ TruthyRat(ct.mean) /\ TruthyRat(et.mean)
    THEN {<<"la", "total_faster",
            IF RatGt(ct.mean, et.mean) THEN "ElevenLabs" ELSE "Cartesia">>}
    ELSE {}

\* "if stats['p25']:" followed by the formatting of stats['p25'] and
\* stats['p75'] of the same provider
QuartilesFormatted(section, p, stats) ==
    IF TruthyRat(stats.p25) THEN {<<section, "p25", p>>, <<section, "p75", p>>}
    ELSE {}

load_data ==
    /\ pc = "la_load"
    /\ exc = "none"
    /\ UNCHANGED <<uiVars, genVars>>
    /\ UNCHANGED <<cart_corr, elev_corr, wins, total, win_pct, by_category>>
    /\ LET r == LatencyAnalyzer_load_data(logFiles, evalFile)
       IN  /\ generation_logs' = r.generation_logs
           /\ evaluations' = r.evaluations
           /\ IF r.exc # "none" THEN Raise(r.exc)
              ELSE pc' = "la_extract" /\ exc' = exc
    /\ UNCHANGED <<logFiles, evalFile, latency_data, total_time_data,
                   latency_by_language, cart_stats, elev_stats, cart_data,
                   elev_data, pa_evaluations, ui_latency_data, out,
                   formatted>>

extract ==
    /\ pc = "la_extract"
    /\ exc = "none"
    /\ UNCHANGED <<uiVars, genVars>>
    /\ UNCHANGED <<cart_corr, elev_corr, wins, total, win_pct, by_category>>
    /\ LET r == extract_latency_data(generation_logs)
       IN  /\ latency_data' = r.latency_data
           /\ total_time_data' = r.total_time_data
           /\ latency_by_language' = r.latency_by_language
           /\ IF r.exc # "none" THEN Raise(r.exc)
              ELSE pc' = "la_compare" /\ exc' = exc
    /\ UNCHANGED <<logFiles, evalFile, generation_logs, evaluations,
                   cart_stats, elev_stats, cart_data, elev_data,
                   pa_evaluations, ui_latency_data, out, formatted>>

compare_latency ==
    /\ pc = "la_compare"
    /\ exc = "none"
    /\ UNCHANGED <<uiVars, genVars>>
    /\ UNCHANGED <<cart_corr, elev_corr, wins, total, win_pct, by_category>>
    /\ LET cd == latency_data["cartesia"]
           ed == latency_data["elevenlabs"]
       IN  IF HasNotNumber(cd) \/ HasNotNumber(ed)
           THEN /\ Raise("TypeError: mean")
                /\ UNCHANGED <<cart_stats, elev_stats, out, formatted>>
           ELSE
             LET cs == compute_statistics(cd)
                 es == compute_statistics(ed)
             IN  /\ cart_stats' = cs
                 /\ elev_stats' = es
                 /\ formatted' = formatted
                        \cup (IF DOMAIN cs # {}
                              THEN QuartilesFormatted("la", "cartesia", cs)
                              ELSE {})
                        \cup (IF DOMAIN cs # {} /\ DOMAIN es # {}
                              THEN QuartilesFormatted("la", "elevenlabs", es)
                              ELSE {})
                 /\ IF DOMAIN cs = {}
                    THEN Raise("KeyError: 'count'") /\ out' = out
                    ELSE IF DOMAIN es = {}
                    THEN /\ Raise("KeyError: 'count'")
                         /\ out' = out \cup ProviderLines("cartesia", cs)
                    ELSE IF HasNotNumber(total_time_data["cartesia"])
                            \/ HasNotNumber(total_time_data["elevenlabs"])
                    THEN /\ Raise("TypeError: mean")
                         /\ out' = out \cup ProviderLines("cartesia", cs)
                                \cup ProviderLines("elevenlabs", es)
                                \cup WinnerLines(cs, es)
                    ELSE /\ pc' = "la_language" /\ exc' = exc
                         /\ out' = out \cup ProviderLines("cartesia", cs)
                                \cup ProviderLines("elevenlabs", es)
                                \cup WinnerLines(cs, es)
                                \cup TotalLines(
                                  compute_statistics(total_time_data["cartesia"]),
                                  compute_statistics(total_time_data["elevenlabs"]))
    /\ UNCHANGED <<logFiles, evalFile, generation_logs, evaluations,
                   latency_data, total_time_data, latency_by_language,
                   cart_data, elev_data, pa_evaluations, ui_latency_data>>

KnownLanguages == {"en", "de", "zh", "ja"}

\* "ElevenLabs" if speedup > 1 else "Cartesia", speedup = mean(c) / mean(e)
Faster(c, e) ==
    IF RatGt(statistics_mean(c), statistics_mean(e)) THEN "ElevenLabs"
    ELSE "Cartesia"

\* the lines analyze_by_language prints for the languages it does not skip
LanguageLines(byLang) ==
    UNION {
        {<<"lang", l>>}
        \cup {<<(IF byLang[l][p] # <<>> THEN "lang_stats" ELSE "lang_nodata"),
                l, p>> : p \in ProviderSet}
        \cup (IF byLang[l]["cartesia"] # <<>> /\ byLang[l]["elevenlabs"] # <<>>
              THEN {<<"lang_faster", l,
                      Faster(byLang[l]["cartesia"], byLang[l]["elevenlabs"])>>}
              ELSE {})
        : l \in KnownLanguages \cap DOMAIN byLang}

analyze_by_language ==
    /\ pc = "la_language"
    /\ exc = "none"
    /\ UNCHANGED <<uiVars, genVars>>
    /\ UNCHANGED <<cart_corr, elev_corr, wins, total, win_pct, by_category>>
    /\ out' = out \cup LanguageLines(latency_by_language)
    /\ pc' = "la_correlate"
    /\ UNCHANGED <<logFiles, evalFile, exc, generation_logs, evaluations,
                   latency_data, total_time_data, latency_by_language,
                   cart_stats, elev_stats, cart_data, elev_data,
                   pa_evaluations, ui_latency_data, formatted>>

\* float(x) inside try / except (ValueError, TypeError): None on failure
ToFloat(v) == IF v = None \/ v = NotNumber THEN None ELSE v

\* the latency correlate_latency_quality resolves for one provider
AnalyzerLatency(eval_item, provider) ==
    LET block == IF "latency" \in DOMAIN eval_item THEN eval_item.latency
                 ELSE EmptyDict
        suffixed == IF provider = "cartesia" THEN "cartesia_ttfb"
                    ELSE "elevenlabs_ttfb"
    IN  ToFloat(Or(Get(block, suffixed), Get(block, provider)))

\* eval_item.get(provider, {}).get("average_score")
Quality(eval_item, provider) ==
    IF provider \in DOMAIN eval_item
       /\ "average_score" \in DOMAIN eval_item[provider]
    THEN eval_item[provider].average_score
    ELSE NoneRat

RECURSIVE AnalyzerPairs(_, _)
AnalyzerPairs(evals, provider) ==
    IF evals = <<>> THEN <<>>
    ELSE LET l == AnalyzerLatency(Head(evals), provider)
             q == Quality(Head(evals), provider)
         IN  (IF Truthy(l) /\ TruthyRat(q) THEN <<[latency |-> l, quality |-> q]>>
              ELSE <<>>)
             \o AnalyzerPairs(Tail(evals), provider)

\* the x values and the y values of the pairs; a quality is a number of fifths
Latencies(data) == [i \in DOMAIN data |-> data[i].latency]
Qualities(data) == [i \in DOMAIN data |-> data[i].quality.num]

RECURSIVE SumProd(_, _)
SumProd(x, y) ==
    IF x = <<>> THEN 0 ELSE Head(x) * Head(y) + SumProd(Tail(x), Tail(y))

\* 0.0 as a correlation
ZeroCorr == [num |-> 0, den |-> 1]

\* a correlation that divides without testing the denominators
pearson_correlation_unguarded(data) ==
    IF Len(data) < 2 THEN ZeroCorr
    ELSE LET n == Len(data)
             x == Latencies(data)
             y == Qualities(data)
         IN  [num |-> n * SumProd(x, y) - Sum(x) * Sum(y),
              den |-> (n * SumSq(x) - Sum(x) * Sum(x))
                      * (n * SumSq(y) - Sum(y) * Sum(y))]

\* pearson_correlation: the value r = num / sqrt(den); numerator and both
\* denominators are multiplied by n, which leaves r and the zero tests as
\* they are
pearson_correlation(data) ==
    IF Len(data) < 2 THEN ZeroCorr
    ELSE LET n == Len(data)
             x == Latencies(data)
             y == Qualities(data)
             numerator == n * SumProd(x, y) - Sum(x) * Sum(y)
             denominator_x == n * SumSq(x) - Sum(x) * Sum(x)
             denominator_y == n * SumSq(y) - Sum(y) * Sum(y)
         IN  IF denominator_x = 0 \/ denominator_y = 0 THEN ZeroCorr
             ELSE [num |-> numerator, den |-> denominator_x * denominator_y]

\* abs(r), and r < k / 10 for a positive k
abs(r) == [r EXCEPT !.num = IF @ < 0 THEN -@ ELSE @]
CorrLess(r, k) == r.num < 0 \/ 100 * r.num * r.num < k * k * r.den

\* a label that forgets the absolute value
StrengthLabelSigned(r) ==
    IF CorrLess(r, 3) THEN "weak"
    ELSE IF CorrLess(r, 7) THEN "moderate"
    ELSE "strong"

\* the label printed under a correlation (lines 278-283 and 288-293)
StrengthLabel(r) ==
    IF CorrLess(abs(r), 3) THEN "weak"
    ELSE IF CorrLess(abs(r), 7) THEN "moderate"
    ELSE "strong"

StrengthLines(p, data) ==
    IF data = <<>> THEN {}
    ELSE {<<"corr_strength", p, StrengthLabel(pearson_correlation(data))>>}

\* lines 296-309: the average quality of the two sets of pairs
QualityLines(cd, ed) ==
    IF cd = <<>> \/ ed = <<>> THEN {}
    ELSE LET d == Sum(Qualities(cd)) * Len(ed) - Sum(Qualities(ed)) * Len(cd)
             a == IF d < 0 THEN -d ELSE d
         IN  {<<"corr_quality",
                IF 10 * a < 5 * Len(cd) * Len(ed) THEN "tied"
                ELSE IF d > 0 THEN "Cartesia" ELSE "ElevenLabs">>}

correlate_latency_quality ==
    /\ pc = "la_correlate"
    /\ exc = "none"
    /\ UNCHANGED <<uiVars, genVars>>
    /\ UNCHANGED <<wins, total, win_pct, by_category>>
    /\ IF evaluations = <<>>
       THEN /\ out' = out \cup {<<"corr", "no_evaluations">>}
            /\ UNCHANGED <<cart_data, elev_data, cart_corr, elev_corr>>
       ELSE LET cd == AnalyzerPairs(evaluations, "cartesia")
                ed == AnalyzerPairs(evaluations, "elevenlabs")
            IN  /\ cart_data' = cd
                /\ elev_data' = ed
                /\ cart_corr' = IF cd # <<>> THEN pearson_correlation(cd)
                                ELSE cart_corr
                /\ elev_corr' = IF ed # <<>> THEN pearson_correlation(ed)
                                ELSE elev_corr
                /\ out' = out \cup {<<"corr", "data_points">>}
                              \cup StrengthLines("cartesia", cd)
                              \cup StrengthLines("elevenlabs", ed)
                              \cup QualityLines(cd, ed)
    /\ pc' = "la_summary"
    /\ UNCHANGED <<logFiles, evalFile, exc, generation_logs, evaluations,
                   latency_data, total_time_data, latency_by_language,
                   cart_stats, elev_stats, pa_evaluations, ui_latency_data,
                   formatted>>

\* the findings generate_summary prints
SummaryLines(cs, es, byLang) ==
    IF DOMAIN cs = {} \/ DOMAIN es = {} THEN {}
    ELSE
        {<<"summary", "ttfb",
           IF 10 * cs.mean.num * es.mean.den > 11 * es.mean.num * cs.mean.den
           THEN "ElevenLabs"
           ELSE IF 10 * cs.mean.num * es.mean.den < 9 * es.mean.num * cs.mean.den
           THEN "Cartesia"
           ELSE "similar">>,
         <<"summary", "more_consistent",
           IF CvLess(cs, es, 9) THEN "Cartesia"
           ELSE IF CvLess(es, cs, 9) THEN "ElevenLabs"
           ELSE "similar">>}
        \cup {<<"summary_lang", l,
                Faster(byLang[l]["cartesia"], byLang[l]["elevenlabs"])>> :
                l \in {k \in KnownLanguages \cap DOMAIN byLang :
                         byLang[k]["cartesia"] # <<>>
                         /\ byLang[k]["elevenlabs"] # <<>>}}

generate_summary ==
    /\ pc = "la_summary"
    /\ exc = "none"
    /\ UNCHANGED <<uiVars, genVars>>
    /\ UNCHANGED <<cart_corr, elev_corr, wins, total, win_pct, by_category>>
    /\ out' = out \cup SummaryLines(compute_statistics(latency_data["cartesia"]),
                                    compute_statistics(latency_data["elevenlabs"]),
                                    latency_by_language)
    /\ pc' = "la_done"
    /\ UNCHANGED <<logFiles, evalFile, exc, generation_logs, evaluations,
                   latency_data, total_time_data, latency_by_language,
                   cart_stats, elev_stats, cart_data, elev_data,
                   pa_evaluations, ui_latency_data, formatted>>

(***************************************************************************)
(* PerformanceAnalyzer                                                     *)
(***************************************************************************)

\* PerformanceAnalyzer.load_data: the evaluations and the exception, if any
PerformanceAnalyzer_load_data(ef) ==
    IF "missing" \in DOMAIN ef THEN [evaluations |-> <<>>, exc |-> "none"]
    ELSE IF json_load_raises(ef)
    THEN [evaluations |-> <<>>, exc |-> "JSONDecodeError"]
    ELSE [evaluations |-> ef.records, exc |-> "none"]

\* [e[provider]["average_score"] for e in evals], as numerators over 5
RECURSIVE AverageScores(_, _)
AverageScores(evals, provider) ==
    IF evals = <<>> THEN <<>>
    ELSE <<Head(evals)[provider].average_score.num>>
         \o AverageScores(Tail(evals), provider)

IsEnglish(e) == startswith(e.test_id, "E")
EnglishEvals(evals) == SelectSeq(evals, IsEnglish)

\* [e[provider][criterion] for e in evals]
CriterionScores(evals, provider, criterion) ==
    [i \in DOMAIN evals |-> evals[i][provider][criterion]]

\* n * (mean(cartesia) - mean(elevenlabs)) for one criterion, n = len(evals)
CriterionDiff(evals, criterion) ==
    Sum(CriterionScores(evals, "cartesia", criterion))
    - Sum(CriterionScores(evals, "elevenlabs", criterion))

\* "Cartesia" if diff > 0.1 else ("ElevenLabs" if diff < -0.1 else "Tie")
CriterionWinner(evals, criterion) ==
    LET d == CriterionDiff(evals, criterion)
        n == Len(evals)
    IN  IF 10 * d > n THEN "Cartesia"
        ELSE IF 10 * d < -n THEN "ElevenLabs"
        ELSE "Tie"

CriteriaSet == {criteria[i] : i \in DOMAIN criteria}

\* the rows of a criteria table
CriterionWinnerLines(tag, evals) ==
    {<<tag, c, CriterionWinner(evals, c)>> : c \in CriteriaSet}

\* criteria_breakdown, key insights: diff > 0.15 and diff < -0.15
InsightLines(evals) ==
    {<<"pa_insight", c, "Cartesia">> :
        c \in {x \in CriteriaSet :
                 100 * CriterionDiff(evals, x) > 15 * Len(evals)}}
    \cup {<<"pa_insight", c, "ElevenLabs">> :
        c \in {x \in CriteriaSet :
                 100 * CriterionDiff(evals, x) < -15 * Len(evals)}}

\* executive_summary, relative strengths: abs(diff) > 0.1
StrongerLines(evals) ==
    {<<"pa_stronger", c,
       IF CriterionDiff(evals, c) > 0 THEN "Cartesia" ELSE "ElevenLabs">> :
        c \in {x \in CriteriaSet :
                 LET d == CriterionDiff(evals, x)
                 IN  10 * (IF d < 0 THEN -d ELSE d) > Len(evals)}}

\* a tally that counts no tie
TallyWithoutTies(evals) ==
    [k \in Outcomes |->
        IF k = "Tie" THEN 0
        ELSE Cardinality({i \in DOMAIN evals :
                             evals[i].comparison.winner = k})]

\* wins = {"Cartesia": 0, "Eleven Labs": 0, "Tie": 0}, then wins[winner] += 1
\* for every evaluation
Tally(evals) ==
    [k \in Outcomes |->
        Cardinality({i \in DOMAIN evals : evals[i].comparison.winner = k})]

\* sum(wins.values())
TallyTotal(w) == w["Cartesia"] + w["Eleven Labs"] + w["Tie"]

\* wins[k] / total * 100 for the three outcomes
Percentages(w) == [k \in Outcomes |-> Rat(100 * w[k], TallyTotal(w))]

\* the defaultdict by_category after the loop over the evaluations
ByCategory(evals) ==
    [cat \in {evals[i].category : i \in DOMAIN evals} |->
        LET es == SelectSeq(evals, LAMBDA e : e.category = cat)
        IN  [cartesia |-> AverageScores(es, "cartesia"),
             elevenlabs |-> AverageScores(es, "elevenlabs"),
             wins |-> Tally(es)]]

\* a category winner decided by the mean scores
CategoryWinnerByMean(data) ==
    IF Sum(data.cartesia) > Sum(data.elevenlabs) THEN "Cartesia"
    ELSE IF Sum(data.elevenlabs) > Sum(data.cartesia) THEN "ElevenLabs"
    ELSE "Tie"

\* the winner of a category: decided by the head-to-head tally
CategoryWinner(data) ==
    IF data.wins["Cartesia"] > data.wins["Eleven Labs"] THEN "Cartesia"
    ELSE IF data.wins["Eleven Labs"] > data.wins["Cartesia"] THEN "ElevenLabs"
    ELSE "Tie"

CategoryLines(tag, byCat) ==
    {<<tag, cat, CategoryWinner(byCat[cat])>> : cat \in DOMAIN byCat}

\* load_data and the guard of PerformanceAnalyzer.run_analysis
pa_load_data ==
    /\ pc = "pa_load"
    /\ exc = "none"
    /\ UNCHANGED <<uiVars, genVars>>
    /\ UNCHANGED <<cart_corr, elev_corr, wins, total, win_pct, by_category>>
    /\ LET r == PerformanceAnalyzer_load_data(evalFile)
       IN  /\ pa_evaluations' = r.evaluations
           /\ IF r.exc # "none" THEN Raise(r.exc) /\ out' = out
              ELSE IF r.evaluations = <<>>
              THEN /\ pc' = "pa_done" /\ exc' = exc
                   /\ out' = out \cup {<<"pa", "no_evaluations">>}
              ELSE pc' = "pa_overall" /\ exc' = exc /\ out' = out
    /\ UNCHANGED <<logFiles, evalFile, generation_logs, evaluations,
                   latency_data, total_time_data, latency_by_language,
                   cart_stats, elev_stats, cart_data, elev_data,
                   ui_latency_data, formatted>>

overall_comparison ==
    /\ pc = "pa_overall"
    /\ exc = "none"
    /\ UNCHANGED <<uiVars, genVars>>
    /\ UNCHANGED <<cart_corr, elev_corr, by_category>>
    /\ IF mean_raises(AverageScores(pa_evaluations, "cartesia"))
          \/ stdev_raises(AverageScores(pa_evaluations, "cartesia"))
       THEN /\ Raise("StatisticsError: stdev") /\ out' = out
            /\ UNCHANGED <<wins, total, win_pct>>
       ELSE /\ pc' = "pa_criteria" /\ exc' = exc
            /\ wins' = Tally(pa_evaluations)
            /\ total' = TallyTotal(wins')
            /\ win_pct' = Percentages(wins')
            /\ out' = out \cup {<<"pa", "overall">>, <<"pa", "head_to_head">>}
    /\ UNCHANGED <<logFiles, evalFile, generation_logs, evaluations,
                   latency_data, total_time_data, latency_by_language,
                   cart_stats, elev_stats, cart_data, elev_data,
                   pa_evaluations, ui_latency_data, formatted>>

criteria_breakdown ==
    /\ pc = "pa_criteria"
    /\ exc = "none"
    /\ UNCHANGED <<uiVars, genVars>>
    /\ UNCHANGED <<cart_corr, elev_corr, wins, total, win_pct, by_category>>
    /\ out' = out \cup {<<"pa", "criteria">>}
                  \cup CriterionWinnerLines("pa_criterion_winner",
                                            pa_evaluations)
                  \cup InsightLines(pa_evaluations)
    /\ pc' = "pa_category"
    /\ UNCHANGED <<logFiles, evalFile, exc, generation_logs, evaluations,
                   latency_data, total_time_data, latency_by_language,
                   cart_stats, elev_stats, cart_data, elev_data,
                   pa_evaluations, ui_latency_data, formatted>>

category_breakdown ==
    /\ pc = "pa_category"
    /\ exc = "none"
    /\ UNCHANGED <<uiVars, genVars>>
    /\ UNCHANGED <<cart_corr, elev_corr, wins, total, win_pct>>
    /\ by_category' = ByCategory(pa_evaluations)
    /\ out' = out \cup {<<"pa", "category">>}
                  \cup CategoryLines("pa_category_winner", by_category')
    /\ pc' = "pa_english"
    /\ UNCHANGED <<logFiles, evalFile, exc, generation_logs, evaluations,
                   latency_data, total_time_data, latency_by_language,
                   cart_stats, elev_stats, cart_data, elev_data,
                   pa_evaluations, ui_latency_data, formatted>>

english_deep_dive ==
    /\ pc = "pa_english"
    /\ exc = "none"
    /\ UNCHANGED <<uiVars, genVars>>
    /\ UNCHANGED <<cart_corr, elev_corr, wins, total, win_pct, by_category>>
    /\ LET english_evals == EnglishEvals(pa_evaluations)
       IN  IF english_evals = <<>>
           THEN /\ out' = out \cup {<<"pa", "no_english">>}
                /\ pc' = "pa_strengths" /\ exc' = exc
           ELSE IF stdev_raises(AverageScores(english_evals, "cartesia"))
           THEN Raise("StatisticsError: stdev") /\ out' = out
           ELSE /\ out' = out \cup {<<"pa", "english">>}
                /\ pc' = "pa_strengths" /\ exc' = exc
    /\ UNCHANGED <<logFiles, evalFile, generation_logs, evaluations,
                   latency_data, total_time_data, latency_by_language,
                   cart_stats, elev_stats, cart_data, elev_data,
                   pa_evaluations, ui_latency_data, formatted>>

strengths_weaknesses ==
    /\ pc = "pa_strengths"
    /\ exc = "none"
    /\ UNCHANGED <<uiVars, genVars>>
    /\ UNCHANGED <<cart_corr, elev_corr, wins, total, win_pct, by_category>>
    /\ out' = out \cup {<<"pa", "strengths">>}
    /\ pc' = "pa_summary"
    /\ UNCHANGED <<logFiles, evalFile, exc, generation_logs, evaluations,
                   latency_data, total_time_data, latency_by_language,
                   cart_stats, elev_stats, cart_data, elev_data,
                   pa_evaluations, ui_latency_data, formatted>>

executive_summary ==
    /\ pc = "pa_summary"
    /\ exc = "none"
    /\ UNCHANGED <<uiVars, genVars>>
    /\ UNCHANGED <<cart_corr, elev_corr, wins, total, win_pct, by_category>>
    /\ out' = out \cup {<<"pa", "summary">>}
                  \cup StrongerLines(pa_evaluations)
    /\ pc' = "pa_done"
    /\ UNCHANGED <<logFiles, evalFile, exc, generation_logs, evaluations,
                   latency_data, total_time_data, latency_by_language,
                   cart_stats, elev_stats, cart_data, elev_data,
                   pa_evaluations, ui_latency_data, formatted>>

(***************************************************************************)
(* generate_markdown_report                                                *)
(***************************************************************************)

\* lines 16-23: both analyzers are created and loaded
report_load ==
    /\ pc = "rep_load"
    /\ exc = "none"
    /\ UNCHANGED <<uiVars, genVars>>
    /\ UNCHANGED <<cart_corr, elev_corr, wins, total, win_pct, by_category>>
    /\ LET l == LatencyAnalyzer_load_data(logFiles, evalFile)
           x == extract_latency_data(l.generation_logs)
           p == PerformanceAnalyzer_load_data(evalFile)
       IN  /\ generation_logs' = l.generation_logs
           /\ evaluations' = l.evaluations
           /\ IF l.exc # "none"
              THEN /\ Raise(l.exc)
                   /\ UNCHANGED <<latency_data, total_time_data,
                                  latency_by_language, pa_evaluations>>
              ELSE /\ latency_data' = x.latency_data
                   /\ total_time_data' = x.total_time_data
                   /\ latency_by_language' = x.latency_by_language
                   /\ IF x.exc # "none"
                      THEN Raise(x.exc) /\ UNCHANGED pa_evaluations
                      ELSE /\ pa_evaluations' = p.evaluations
                           /\ IF p.exc # "none" THEN Raise(p.exc)
                              ELSE pc' = "rep_summary" /\ exc' = exc
    /\ UNCHANGED <<logFiles, evalFile, cart_stats, elev_stats, cart_data,
                   elev_data, ui_latency_data, out, formatted>>

\* lines 61-69: the speed winner of the executive summary
ReportSpeedLines(cs, es) ==
    IF DOMAIN cs = {} \/ DOMAIN es = {} THEN {}
    ELSE IF 10 * cs.mean.num * es.mean.den > 11 * es.mean.num * cs.mean.den
    THEN {<<"rep_summary_faster", "ElevenLabs">>}
    ELSE IF 10 * cs.mean.num * es.mean.den < 9 * es.mean.num * cs.mean.den
    THEN {<<"rep_summary_faster", "Cartesia">>}
    ELSE {}

\* lines 25-76: header and executive summary
report_summary ==
    /\ pc = "rep_summary"
    /\ exc = "none"
    /\ UNCHANGED <<uiVars, genVars>>
    /\ UNCHANGED <<cart_corr, elev_corr, wins, total, win_pct, by_category>>
    /\ LET cart_scores == AverageScores(pa_evaluations, "cartesia")
           cd == latency_data["cartesia"]
           ed == latency_data["elevenlabs"]
       IN  IF mean_raises(cart_scores)
           THEN /\ Raise("StatisticsError: mean")
                /\ UNCHANGED <<cart_stats, elev_stats, out>>
           ELSE IF HasNotNumber(cd) \/ HasNotNumber(ed)
           THEN /\ Raise("TypeError: mean")
                /\ UNCHANGED <<cart_stats, elev_stats, out>>
           ELSE /\ cart_stats' = compute_statistics(cd)
                /\ elev_stats' = compute_statistics(ed)
                /\ IF stdev_raises(cart_scores)
                   THEN Raise("StatisticsError: stdev") /\ out' = out
                   ELSE /\ pc' = "rep_ttfb" /\ exc' = exc
                        /\ out' = out \cup {<<"rep", "summary">>}
                               \cup ReportSpeedLines(compute_statistics(cd),
                                                     compute_statistics(ed))
    /\ UNCHANGED <<logFiles, evalFile, generation_logs, evaluations,
                   latency_data, total_time_data, latency_by_language,
                   cart_data, elev_data, pa_evaluations, ui_latency_data,
                   formatted>>

\* lines 92-94: "if cart_latency_stats['p25']:" followed by the formatting of
\* the p25 and p75 of both providers
ReportQuartilesFormatted(cs, es) ==
    IF TruthyRat(cs.p25)
    THEN {<<"rep", k, p>> : k \in {"p25", "p75"}, p \in ProviderSet}
    ELSE {}

\* lines 78-104: the overall TTFB table
report_ttfb ==
    /\ pc = "rep_ttfb"
    /\ exc = "none"
    /\ UNCHANGED <<uiVars, genVars>>
    /\ UNCHANGED <<cart_corr, elev_corr, wins, total, win_pct, by_category>>
    /\ IF DOMAIN cart_stats # {} /\ DOMAIN elev_stats # {}
       THEN /\ formatted' = formatted
                   \cup ReportQuartilesFormatted(cart_stats, elev_stats)
            /\ IF TruthyRat(cart_stats.p25) /\ IsNone(elev_stats.p25)
               THEN Raise("TypeError: format") /\ out' = out
               ELSE /\ pc' = "rep_language" /\ exc' = exc
                    /\ out' = out \cup
                         {<<"rep", "ttfb_table">>,
                          <<"rep", "speedup_faster", "ElevenLabs">>,
                          <<"rep", "more_consistent",
                            IF CvLess(cart_stats, elev_stats, 10)
                            THEN "Cartesia" ELSE "ElevenLabs">>}
       ELSE /\ pc' = "rep_language" /\ exc' = exc
            /\ UNCHANGED <<out, formatted>>
    /\ UNCHANGED <<logFiles, evalFile, generation_logs, evaluations,
                   latency_data, total_time_data, latency_by_language,
                   cart_stats, elev_stats, cart_data, elev_data,
                   pa_evaluations, ui_latency_data>>

\* lines 106-126: the TTFB by language table
report_language ==
    /\ pc = "rep_language"
    /\ exc = "none"
    /\ UNCHANGED <<uiVars, genVars>>
    /\ UNCHANGED <<cart_corr, elev_corr, wins, total, win_pct, by_category>>
    /\ out' = out \cup
         {<<"rep_lang", l>> :
             l \in {k \in KnownLanguages \cap DOMAIN latency_by_language :
                      latency_by_language[k]["cartesia"] # <<>>
                      /\ latency_by_language[k]["elevenlabs"] # <<>>}}
    /\ pc' = "rep_correlation"
    /\ UNCHANGED <<logFiles, evalFile, exc, generation_logs, evaluations,
                   latency_data, total_time_data, latency_by_language,
                   cart_stats, elev_stats, cart_data, elev_data,
                   pa_evaluations, ui_latency_data, formatted>>

\* the latency the report resolves for one provider (lines 136-149)
ReportLatency(eval_item, provider) ==
    LET block == IF "latency" \in DOMAIN eval_item THEN eval_item.latency
                 ELSE EmptyDict
    IN  ToFloat(Get(block, provider))

RECURSIVE ReportPairs(_, _)
ReportPairs(evals, provider) ==
    IF evals = <<>> THEN <<>>
    ELSE LET l == ReportLatency(Head(evals), provider)
             q == Quality(Head(evals), provider)
         IN  (IF Truthy(l) /\ TruthyRat(q) THEN <<[latency |-> l, quality |-> q]>>
              ELSE <<>>)
             \o ReportPairs(Tail(evals), provider)

\* lines 128-188: correlation of TTFB and quality
report_correlation ==
    /\ pc = "rep_correlation"
    /\ exc = "none"
    /\ UNCHANGED <<uiVars, genVars>>
    /\ UNCHANGED <<wins, total, win_pct, by_category>>
    /\ LET cd == ReportPairs(pa_evaluations, "cartesia")
           ed == ReportPairs(pa_evaluations, "elevenlabs")
       IN  /\ cart_data' = cd
           /\ elev_data' = ed
           /\ IF cd # <<>> /\ ed # <<>>
              THEN /\ cart_corr' = pearson_correlation(cd)
                   /\ elev_corr' = pearson_correlation(ed)
                   /\ out' = out \cup {<<"rep", "correlation">>}
              ELSE UNCHANGED <<cart_corr, elev_corr, out>>
    /\ pc' = "rep_quality"
    /\ UNCHANGED <<logFiles, evalFile, exc, generation_logs, evaluations,
                   latency_data, total_time_data, latency_by_language,
                   cart_stats, elev_stats, pa_evaluations, ui_latency_data,
                   formatted>>

\* line 214: "Cartesia's +0.93 advantage in Naturalness is the largest quality
\* gap. ElevenLabs has a smaller advantage in Prosody (+0.17)": fixed text
KeyInsightLines ==
    {<<"rep_strength", "naturalness", "Cartesia">>,
     <<"rep_strength", "prosody", "ElevenLabs">>}

\* line 333, under "Cartesia's Strengths": "Naturalness/Human-ness:
\* Consistently sounds more like a real person (+0.93 advantage)": fixed text
StrengthSectionLines == {<<"rep_strength", "naturalness", "Cartesia">>}

\* lines 190-227: quality tables and head-to-head record
report_quality ==
    /\ pc = "rep_quality"
    /\ exc = "none"
    /\ UNCHANGED <<uiVars, genVars>>
    /\ UNCHANGED <<cart_corr, elev_corr, by_category>>
    /\ wins' = Tally(pa_evaluations)
    /\ total' = TallyTotal(wins')
    /\ win_pct' = Percentages(wins')
    /\ out' = out \cup {<<"rep", "criteria">>, <<"rep", "head_to_head">>}
                  \cup CriterionWinnerLines("rep_criterion_winner",
                                            pa_evaluations)
                  \cup KeyInsightLines
    /\ pc' = "rep_english"
    /\ UNCHANGED <<logFiles, evalFile, exc, generation_logs, evaluations,
                   latency_data, total_time_data, latency_by_language,
                   cart_stats, elev_stats, cart_data, elev_data,
                   pa_evaluations, ui_latency_data, formatted>>

\* lines 229-292: English deep dive
report_english ==
    /\ pc = "rep_english"
    /\ exc = "none"
    /\ UNCHANGED <<uiVars, genVars>>
    /\ UNCHANGED <<cart_corr, elev_corr, wins, total, win_pct, by_category>>
    /\ LET english_evals == EnglishEvals(pa_evaluations)
       IN  IF english_evals = <<>>
           THEN pc' = "rep_finish" /\ exc' = exc /\ out' = out
           ELSE IF stdev_raises(AverageScores(english_evals, "cartesia"))
           THEN Raise("StatisticsError: stdev") /\ out' = out
           ELSE /\ out' = out \cup {<<"rep", "english">>}
                /\ pc' = "rep_finish" /\ exc' = exc
    /\ UNCHANGED <<logFiles, evalFile, generation_logs, evaluations,
                   latency_data, total_time_data, latency_by_language,
                   cart_stats, elev_stats, cart_data, elev_data,
                   pa_evaluations, ui_latency_data, formatted>>

\* lines 294-447: categories, strengths, conclusions; the file is written
report_finish ==
    /\ pc = "rep_finish"
    /\ exc = "none"
    /\ UNCHANGED <<uiVars, genVars>>
    /\ UNCHANGED <<cart_corr, elev_corr, wins, total, win_pct>>
    /\ by_category' = ByCategory(pa_evaluations)
    /\ out' = out \cup {<<"rep", "category">>, <<"rep", "written">>}
                  \cup CategoryLines("rep_category_winner", by_category')
                  \cup StrengthSectionLines
    /\ pc' = "rep_done"
    /\ UNCHANGED <<logFiles, evalFile, exc, generation_logs, evaluations,
                   latency_data, total_time_data, latency_by_language,
                   cart_stats, elev_stats, cart_data, elev_data,
                   pa_evaluations, ui_latency_data, formatted>>

(***************************************************************************)
(* EvaluationInterface                                                     *)
(***************************************************************************)

\* latency_data[provider][test_id] = gen_time
Store(d, k, v) == [x \in DOMAIN d \cup {k} |-> IF x = k THEN v ELSE d[x]]

\* the entries of one provider: "if test_id and gen_time"
RECURSIVE UiEntries(_, _)
UiEntries(d, entries) ==
    IF entries = <<>> THEN d
    ELSE LET entry == Head(entries)
             gen_time == Get(entry, "generation_time")
         IN  UiEntries(IF "test_id" \in DOMAIN entry /\ Truthy(gen_time)
                       THEN Store(d, entry.test_id, gen_time) ELSE d,
                       Tail(entries))

\* EvaluationInterface._load_latency_data over the files in sorted order;
\* a file json.load rejects is skipped by the bare except
RECURSIVE UiLoadLatency(_, _)
UiLoadLatency(acc, files) ==
    IF files = <<>> THEN acc
    ELSE LET f == Head(files)
         IN  UiLoadLatency(
               IF json_load_raises(f) THEN acc
               ELSE [p \in ProviderSet |->
                        UiEntries(acc[p], IF p \in DOMAIN f THEN f[p] ELSE <<>>)],
               Tail(files))

_load_latency_data ==
    /\ pc = "ui_load"
    /\ exc = "none"
    /\ UNCHANGED <<uiVars, genVars>>
    /\ UNCHANGED <<cart_corr, elev_corr, wins, total, win_pct, by_category>>
    /\ ui_latency_data' =
         UiLoadLatency([cartesia |-> EmptyDict, elevenlabs |-> EmptyDict],
                       logFiles)
    /\ pc' = "ui_ready"
    /\ UNCHANGED <<logFiles, evalFile, exc, generation_logs, evaluations,
                   latency_data, total_time_data, latency_by_language,
                   cart_stats, elev_stats, cart_data, elev_data,
                   pa_evaluations, out, formatted>>

\* a load that leaves the records json.load returned when the test ids
\* cannot be collected
_load_existing_evaluations_keeping_list(ef) ==
    IF "missing" \in DOMAIN ef \/ json_load_raises(ef)
    THEN [evaluations |-> <<>>, evaluated_test_ids |-> {}]
    ELSE [evaluations |-> ef.records,
          evaluated_test_ids |->
              {ef.records[i].test_id :
                  i \in {j \in DOMAIN ef.records :
                            "test_id" \in DOMAIN ef.records[j]}}]

\* _load_existing_evaluations on a fresh interface: a missing file leaves
\* both fields empty, and so does any exception of json.load or of the set
\* comprehension over e["test_id"]
_load_existing_evaluations(ef) ==
    IF "missing" \in DOMAIN ef THEN
        [evaluations |-> <<>>, evaluated_test_ids |-> {}]
    ELSE IF json_load_raises(ef) THEN
        [evaluations |-> <<>>, evaluated_test_ids |-> {}]
    ELSE IF \E i \in DOMAIN ef.records : "test_id" \notin DOMAIN ef.records[i]
    THEN [evaluations |-> <<>>, evaluated_test_ids |-> {}]
    ELSE [evaluations |-> ef.records,
          evaluated_test_ids |->
              {ef.records[i].test_id : i \in DOMAIN ef.records}]

\* one entry of test_cases (load_test_cases keeps the tests with audio)
TestCase(test_id, latency) ==
    [test_id |-> test_id, category |-> CategoryOf(test_id),
     cartesia_latency |-> Get(latency["cartesia"], test_id),
     elevenlabs_latency |-> Get(latency["elevenlabs"], test_id)]

\* the index of the first record of a test id, 0 when there is none
FirstIndex(evals, test_id) ==
    LET found == {i \in DOMAIN evals : evals[i].test_id = test_id}
    IN  IF found = {} THEN 0 ELSE CHOOSE i \in found : \A j \in found : i <= j

\* the index of the last record of a test id, 0 when there is none
LastIndex(evals, test_id) ==
    LET found == {i \in DOMAIN evals : evals[i].test_id = test_id}
    IN  IF found = {} THEN 0 ELSE CHOOSE i \in found : \A j \in found : i >= j

\* _get_existing_evaluation: the loop returns at the first match
_get_existing_evaluation(evals, test_id) == FirstIndex(evals, test_id)

\* the sliders and the radio as a stored record fills them
FormOf(eval_item) ==
    [cartesia |-> [i \in 1..5 |-> eval_item["cartesia"][criteria[i]]],
     elevenlabs |-> [i \in 1..5 |-> eval_item["elevenlabs"][criteria[i]]],
     winner |-> eval_item.comparison.winner]

\* get_current_test and _update_display (indices count from 0)
_update_display(tests, index, evals, ids) ==
    IF ~(0 <= index /\ index < Len(tests)) THEN NoDisplay
    ELSE LET test == tests[index + 1]
             is_evaluated == test.test_id \in ids
             existing == IF is_evaluated
                         THEN _get_existing_evaluation(evals, test.test_id)
                         ELSE 0
             shown == LatencyDisplay(test.cartesia_latency,
                                     test.elevenlabs_latency)
         IN  [test_id |-> test.test_id, category |-> test.category,
              cartesia_latency |-> shown.cartesia,
              elevenlabs_latency |-> shown.elevenlabs,
              done |-> is_evaluated,
              form |-> IF existing # 0 THEN FormOf(evals[existing])
                       ELSE DefaultForm]

\* a save that always appends
save_evaluation_appending(evals, ids, new) ==
    [evaluations |-> Append(evals, new),
     evaluated_test_ids |-> ids \cup {new.test_id},
     status |-> <<"Saved", new.test_id>>]

\* save_evaluation, lines 213-231: the first record of the test id is
\* replaced, or the new record is appended
save_evaluation(evals, ids, new) ==
    LET existing_idx == FirstIndex(evals, new.test_id)
    IN  IF existing_idx # 0
        THEN [evaluations |-> [evals EXCEPT ![existing_idx] = new],
              evaluated_test_ids |-> ids \cup {new.test_id},
              status |-> <<"Updated", new.test_id>>]
        ELSE [evaluations |-> Append(evals, new),
              evaluated_test_ids |-> ids \cup {new.test_id},
              status |-> <<"Saved", new.test_id>>]

\* a file that receives only the record at the end of the list
_save_evaluations_last_only(evals) ==
    [records |-> IF evals = <<>> THEN <<>> ELSE <<evals[Len(evals)]>>]

\* _save_evaluations: open(output_file, 'w') and json.dump of the whole list
_save_evaluations(evals) ==
    [records |-> evals]

\* a next_test without the clamp
NextIndexUnclamped(index, tests) ==
    index + 1

\* next_test: one forward, and back to the last test when past it
NextIndex(index, tests) ==
    IF index + 1 >= Len(tests) THEN Len(tests) - 1 ELSE index + 1

\* previous_test: one back, and back to the first test when before it
PreviousIndex(index) ==
    IF index - 1 < 0 THEN 0 ELSE index - 1

\* jump_to_test: the first test case with the chosen id
JumpIndex(index, tests, choice) ==
    LET found == {i \in DOMAIN tests : tests[i].test_id = choice}
    IN  IF choice = "" \/ found = {} THEN index
        ELSE (CHOOSE i \in found : \A j \in found : i <= j) - 1

\* jump_to_unevaluated: from the current position, then from the beginning
UnevaluatedIndex(index, tests, ids) ==
    LET open == {i \in 0..(Len(tests) - 1) : tests[i + 1].test_id \notin ids}
        after == {i \in open : i >= index}
        before == {i \in open : i < index}
    IN  IF after # {} THEN CHOOSE i \in after : \A j \in after : i <= j
        ELSE IF before # {} THEN CHOOSE i \in before : \A j \in before : i <= j
        ELSE index

\* EvaluationInterface.__init__
EvaluationInterface_init ==
    /\ pc = "ui_init"
    /\ exc = "none"
    /\ LET r == _load_existing_evaluations(evalFile)
       IN  /\ ui_evaluations' = r.evaluations
           /\ evaluated_test_ids' = r.evaluated_test_ids
    /\ pc' = "ui_launch"
    /\ UNCHANGED <<logFiles, evalFile, exc, ui_latency_data, out, test_cases,
                   current_index, save_status, display>>
    /\ UNCHANGED <<analysisVars, genVars>>

\* launch: the test cases with audio are loaded, the session starts at the
\* first unevaluated test, and the page load fills the display
launch ==
    /\ pc = "ui_launch"
    /\ exc = "none"
    /\ \E n \in 0..MaxTests :
          LET latency == UiLoadLatency([cartesia |-> EmptyDict,
                                        elevenlabs |-> EmptyDict], logFiles)
              tests == [i \in 1..n |-> TestCase(EvalIdSeq[i], latency)]
              open == {i \in 0..(n - 1) :
                          tests[i + 1].test_id \notin evaluated_test_ids}
              start == IF evaluated_test_ids # {} /\ open # {}
                       THEN CHOOSE i \in open : \A j \in open : i <= j
                       ELSE 0
          IN  /\ ui_latency_data' = latency
              /\ test_cases' = tests
              /\ IF n = 0
                 THEN /\ pc' = "ui_done"
                      /\ out' = out \cup {<<"ui", "no_test_cases">>}
                      /\ UNCHANGED <<current_index, display>>
                 ELSE /\ pc' = "ui_run"
                      /\ out' = out
                      /\ current_index' = start
                      /\ display' = _update_display(tests, start,
                                                    ui_evaluations,
                                                    evaluated_test_ids)
    /\ UNCHANGED <<logFiles, evalFile, exc, ui_evaluations,
                   evaluated_test_ids, save_status>>
    /\ UNCHANGED <<analysisVars, genVars>>

\* the save button: save_evaluation with the displayed test and the form the
\* rater filled, then next_test and _update_display
save_and_next ==
    /\ pc = "ui_run"
    /\ exc = "none"
    /\ \E form \in RatingForms :
          LET r == save_evaluation(ui_evaluations, evaluated_test_ids,
                                   evaluation(display.test_id, display.category,
                                              display.cartesia_latency,
                                              display.elevenlabs_latency, form))
              index == NextIndex(current_index, test_cases)
          IN  /\ ui_evaluations' = r.evaluations
              /\ evaluated_test_ids' = r.evaluated_test_ids
              /\ evalFile' = _save_evaluations(r.evaluations)
              /\ save_status' = r.status
              /\ current_index' = index
              /\ display' = _update_display(test_cases, index, r.evaluations,
                                            r.evaluated_test_ids)
    /\ UNCHANGED <<logFiles, pc, exc, ui_latency_data, out, test_cases>>
    /\ UNCHANGED <<analysisVars, genVars>>

\* a navigation handler: the index moves and the display is filled again
Navigate(index) ==
    /\ current_index' = index
    /\ display' = _update_display(test_cases, index, ui_evaluations,
                                  evaluated_test_ids)
    /\ UNCHANGED <<logFiles, evalFile, pc, exc, ui_latency_data, out,
                   ui_evaluations, evaluated_test_ids, test_cases,
                   save_status>>
    /\ UNCHANGED <<analysisVars, genVars>>

next_test ==
    /\ pc = "ui_run"
    /\ exc = "none"
    /\ Navigate(NextIndex(current_index, test_cases))

previous_test ==
    /\ pc = "ui_run"
    /\ exc = "none"
    /\ Navigate(PreviousIndex(current_index))

\* the dropdown: an entry of the list, nothing, or an id no test case has
jump_to_test ==
    /\ pc = "ui_run"
    /\ exc = "none"
    /\ \E choice \in {"", "X9"} \cup {EvalIdSeq[i] : i \in 1..MaxTests} :
          Navigate(JumpIndex(current_index, test_cases, choice))

jump_to_unevaluated ==
    /\ pc = "ui_run"
    /\ exc = "none"
    /\ Navigate(UnevaluatedIndex(current_index, test_cases,
                                 evaluated_test_ids))

(***************************************************************************)
(* generate_audio.py: AudioGenerator.                                      *)
(***************************************************************************)
\* test_cases/<language>.json: English and German test cases, no file for
\* Mandarin
GenTestFiles ==
    [en |-> <<[test_id |-> "E1", language |-> "en"]>>,
     de |-> <<[test_id |-> "D1", language |-> "de"]>>]

\* load_test_cases: the test cases of the file, [] when there is no file
load_test_cases(language) ==
    IF language \in DOMAIN GenTestFiles THEN GenTestFiles[language] ELSE <<>>

\* config models.<provider>.language_voices: ElevenLabs has no German voice
language_voices ==
    [cartesia |-> {"en", "de", "zh"}, elevenlabs |-> {"en", "zh"}]

\* the command line: --languages, --providers, --no-skip-existing
GenArgs ==
    [languages : {<<"en">>, <<"de">>, <<"zh">>},
     providers : {<<"cartesia", "elevenlabs">>, <<"elevenlabs">>},
     skip_existing : BOOLEAN]

\* the test cases the two loops of generate_all walk through, in order
RECURSIVE AllTestCases(_)
AllTestCases(languages) ==
    IF languages = <<>> THEN <<>>
    ELSE load_test_cases(Head(languages)) \o AllTestCases(Tail(languages))

\* "if not voice_id: continue"
HasVoice(provider, language) == language \in language_voices[provider]

\* what a client call does: the audio is saved, the request fails, or saving
\* the audio raises
ClientOutcomes == {"success", "error", "raises"}

ExpectedFileExists(files, provider, test_id) == <<provider, test_id>> \in files

\* generate_for_provider, for a client call that returns
generate_for_provider(provider, test_id, skip_existing, files, outcome) ==
    IF skip_existing /\ ExpectedFileExists(files, provider, test_id)
    THEN [status |-> "skipped", test_id |-> test_id, provider |-> provider]
    ELSE [status |-> outcome, test_id |-> test_id, provider |-> provider]

\* a skipped attempt counted as a success, too
CountSkippedTwice(summary, status) ==
    IF status = "success"
    THEN [summary EXCEPT !.successful = @ + 1]
    ELSE IF status = "skipped"
    THEN [summary EXCEPT !.skipped = @ + 1, !.successful = @ + 1]
    ELSE [summary EXCEPT !.failed = @ + 1]

\* the counter of the summary the status of a result increments
CountStatus(summary, status) ==
    IF status = "success"
    THEN [summary EXCEPT !.successful = @ + 1]
    ELSE IF status = "skipped"
    THEN [summary EXCEPT !.skipped = @ + 1]
    ELSE [summary EXCEPT !.failed = @ + 1]

\* "successful / (total_tests * len(providers)) if total_tests > 0 else 0"
success_rate(summary, providers) ==
    IF summary.total_tests > 0
    THEN Rat(summary.successful, summary.total_tests * Len(providers))
    ELSE Rat(0, 1)

\* strftime('%Y%m%d_%H%M%S') of a time in half seconds: the second
Stamp(time) == time \div 2

\* _save_generation_log: open(log_file, 'w') and json.dump
_save_generation_log(files, time, res) == Store(files, Stamp(time), res)

\* the position after <<t, p>> in the loops over test cases and providers
NextPosition(pos, providers) ==
    IF pos[2] < Len(providers) THEN <<pos[1], pos[2] + 1>>
    ELSE <<pos[1] + 1, 1>>

\* generate_all up to the loops. Time is counted in half seconds from the
\* start of the first run; a later run starts at once or a second later
generate_all_start ==
    /\ pc = "gen_idle"
    /\ exc = "none"
    /\ Len(returned) < MaxRuns
    /\ \E args \in GenArgs,
          wait \in IF returned = <<>> THEN {0} ELSE {0, 2} :
          /\ gen_args' = args
          /\ now' = now + wait
          /\ results' = [cartesia |-> <<>>, elevenlabs |-> <<>>,
                         summary |-> [total_tests |-> 0, successful |-> 0,
                                      failed |-> 0, skipped |-> 0,
                                      start_time |-> now + wait]]
    /\ position' = <<1, 1>>
    /\ raised' = NoneRaised
    /\ pc' = "gen_running"
    /\ UNCHANGED <<logFiles, evalFile, exc, analysisVars, uiVars,
                   ui_latency_data, out, audio_files,
                   api_calls, returned, generation_log_files>>

\* one pass of the loop over the providers, for one test case
generate_all_attempt ==
    /\ pc = "gen_running"
    /\ exc = "none"
    /\ position[1] <= Len(AllTestCases(gen_args.languages))
    /\ LET test_case == AllTestCases(gen_args.languages)[position[1]]
           provider == gen_args.providers[position[2]]
           counted == IF position[2] = 1
                      THEN [results EXCEPT !.summary.total_tests = @ + 1]
                      ELSE results
           exists == ExpectedFileExists(audio_files, provider,
                                        test_case.test_id)
       IN  \/ /\ ~HasVoice(provider, test_case.language)
              /\ results' = counted
              /\ UNCHANGED <<audio_files, api_calls, raised, now>>
           \/ /\ HasVoice(provider, test_case.language)
              /\ \E outcome \in ClientOutcomes :
                    LET called == ~(gen_args.skip_existing /\ exists)
                        result == generate_for_provider(
                                      provider, test_case.test_id,
                                      gen_args.skip_existing, audio_files,
                                      outcome)
                    IN  IF called /\ outcome = "raises"
                        THEN /\ results' =
                                    [counted EXCEPT !.summary.failed = @ + 1]
                             /\ raised' = [raised EXCEPT ![provider] = @ + 1]
                             /\ api_calls' = api_calls + 1
                             /\ UNCHANGED <<audio_files, now>>
                        ELSE /\ results' =
                                    [counted EXCEPT
                                       ![provider] = Append(@, result),
                                       !.summary =
                                           CountStatus(@, result.status)]
                             /\ audio_files' =
                                    IF result.status = "success"
                                    THEN audio_files
                                         \cup {<<provider, test_case.test_id>>}
                                    ELSE audio_files
                             /\ api_calls' =
                                    IF called THEN api_calls + 1
                                    ELSE api_calls
                             /\ now' = now + 1
                             /\ UNCHANGED raised
    /\ position' = NextPosition(position, gen_args.providers)
    /\ UNCHANGED <<logFiles, evalFile, pc, exc, analysisVars, uiVars,
                   ui_latency_data, out,
                   gen_args, returned, generation_log_files>>

\* generate_all after the loops: the summary is finished and the log saved
generate_all_finish ==
    /\ pc = "gen_running"
    /\ exc = "none"
    /\ position[1] > Len(AllTestCases(gen_args.languages))
    /\ LET summary == [total_tests |-> results.summary.total_tests,
                       successful |-> results.summary.successful,
                       failed |-> results.summary.failed,
                       skipped |-> results.summary.skipped,
                       start_time |-> results.summary.start_time,
                       end_time |-> now,
                       success_rate |-> success_rate(results.summary,
                                                     gen_args.providers)]
           finished == [results EXCEPT !.summary = summary]
       IN  /\ results' = finished
           /\ generation_log_files' =
                  _save_generation_log(generation_log_files, now, finished)
           /\ returned' = Append(returned, finished)
    /\ pc' = "gen_idle"
    /\ UNCHANGED <<logFiles, evalFile, exc, analysisVars, uiVars,
                   ui_latency_data, out, audio_files,
                   gen_args, position, api_calls, raised, now>>

(***************************************************************************)
(* The specification.                                                      *)
(***************************************************************************)
Next ==
    \/ load_data
    \/ extract
    \/ compare_latency
    \/ analyze_by_language
    \/ correlate_latency_quality
    \/ generate_summary
    \/ pa_load_data
    \/ overall_comparison
    \/ criteria_breakdown
    \/ category_breakdown
    \/ english_deep_dive
    \/ strengths_weaknesses
    \/ executive_summary
    \/ report_load
    \/ report_summary
    \/ report_ttfb
    \/ report_language
    \/ report_correlation
    \/ report_quality
    \/ report_english
    \/ report_finish
    \/ _load_latency_data
    \/ EvaluationInterface_init
    \/ launch
    \/ save_and_next
    \/ next_test
    \/ previous_test
    \/ jump_to_test
    \/ jump_to_unevaluated
    \/ generate_all_start
    \/ generate_all_attempt
    \/ generate_all_finish

Spec == Init /\ [][Next]_vars

TypeOK == pc \in {"la_load", "la_extract", "la_compare", "la_language",
                  "la_correlate", "la_summary", "la_done",
                  "pa_load", "pa_overall", "pa_criteria", "pa_category",
                  "pa_english", "pa_strengths", "pa_summary", "pa_done",
                  "rep_load", "rep_summary", "rep_ttfb", "rep_language",
                  "rep_correlation", "rep_quality", "rep_english",
                  "rep_finish", "rep_done", "ui_load", "ui_ready",
                  "ui_init", "ui_launch", "ui_run", "ui_done",
                  "gen_idle", "gen_running"}

(***************************************************************************)
(* Vocabulary of the properties.                                           *)
(***************************************************************************)
Range(f) == {f[i] : i \in DOMAIN f}

TimeKeys == {"ttfb", "total_time", "generation_time"}

LaPcs == {"la_load", "la_extract", "la_compare", "la_language",
          "la_correlate", "la_summary", "la_done"}
PaPcs == {"pa_load", "pa_overall", "pa_criteria", "pa_category",
          "pa_english", "pa_strengths", "pa_summary", "pa_done"}
RepPcs == {"rep_load", "rep_summary", "rep_ttfb", "rep_language",
           "rep_correlation", "rep_quality", "rep_english", "rep_finish",
           "rep_done"}

\* load_data, and extract_latency_data, have returned
PastLoad == pc \in (LaPcs \cup RepPcs) \ {"la_load", "rep_load"}
PastExtract == pc \in (LaPcs \cup RepPcs) \ {"la_load", "la_extract", "rep_load"}

\* the files json.load accepts
ValidFiles(files) == SelectSeq(files, LAMBDA f : ~json_load_raises(f))

\* the entries of one provider in a list of logs, as a set and in file order
AllEntries(logs, p) ==
    UNION {Range(log[p]) : log \in {l \in Range(logs) : p \in DOMAIN l}}

RECURSIVE ProviderEntries(_, _)
ProviderEntries(logs, p) ==
    IF logs = <<>> THEN <<>>
    ELSE (IF p \in DOMAIN Head(logs) THEN Head(logs)[p] ELSE <<>>)
         \o ProviderEntries(Tail(logs), p)

IsSuccess(e) == "status" \in DOMAIN e /\ e.status = "success"
SuccessEntries(logs, p) == {e \in AllEntries(logs, p) : IsSuccess(e)}

\* the resolution rule as the specification states it: the field when it is
\* present, generation_time only when it is absent
ClaimedTime(e, k) == IF k \in DOMAIN e THEN e[k] ELSE Get(e, "generation_time")

IsLegacy(e) == DOMAIN e \cap TimeKeys = {"generation_time"}
IsNewSchema(e) == {"ttfb", "total_time"} \subseteq DOMAIN e

\* a malformed entry: no status, a test id that is no string, or a time that
\* is no number
Malformed(e) ==
    \/ "status" \notin DOMAIN e
    \/ ("test_id" \in DOMAIN e /\ e.test_id = NonStringId)
    \/ \E k \in DOMAIN e \cap TimeKeys : e[k] = NotNumber

CleanLogs(logs) ==
    [i \in DOMAIN logs |->
        [p \in DOMAIN logs[i] |->
            SelectSeq(logs[i][p], LAMBDA e : ~Malformed(e))]]

\* every file is valid JSON and no entry is malformed
WellFormedFiles(files) ==
    /\ \A f \in Range(files) : ~json_load_raises(f)
    /\ \A p \in ProviderSet : \A e \in AllEntries(files, p) : ~Malformed(e)

\* the values of a sample, one per entry, under the claimed resolution rule
ClaimedSample(entries, k) ==
    [i \in DOMAIN entries |-> ClaimedTime(entries[i], k)]

\* the statistics compare_latency and the report hold for a provider
StatsOf(p) == IF p = "cartesia" THEN cart_stats ELSE elev_stats
Computed(stats) == "unset" \notin DOMAIN stats

(***************************************************************************)
(* C1: for every success entry, the TTFB is the entry's ttfb whenever the   *)
(* field is present and generation_time only when it is absent, and the     *)
(* same for total_time: every value in a sample is the present field of a   *)
(* success entry, or the generation_time of a success entry that lacks the  *)
(* field.  The code violates it.                                            *)
(***************************************************************************)
C1_PresentTimeNeverReplaced ==
    \A p \in ProviderSet :
        /\ \A i \in DOMAIN latency_data[p] :
              \E e \in SuccessEntries(generation_logs, p) :
                  ClaimedTime(e, "ttfb") = latency_data[p][i]
        /\ \A i \in DOMAIN total_time_data[p] :
              \E e \in SuccessEntries(generation_logs, p) :
                  ClaimedTime(e, "total_time") = total_time_data[p][i]

(***************************************************************************)
(* C2: when the logs hold only success entries of the legacy schema         *)
(* (generation_time only) and of the new schema (ttfb and total_time),      *)
(* every entry of every file contributes to the samples of its provider,    *)
(* in file order, and a legacy entry contributes its generation_time to     *)
(* both samples.  The code violates it.                                     *)
(***************************************************************************)
C2_EverySuccessEntryContributes ==
    (/\ PastExtract
     /\ WellFormedFiles(generation_logs)
     /\ \A p \in ProviderSet : \A e \in AllEntries(generation_logs, p) :
            IsSuccess(e) /\ (IsLegacy(e) \/ IsNewSchema(e)))
    => \A p \in ProviderSet :
          /\ latency_data[p] =
                ClaimedSample(ProviderEntries(generation_logs, p), "ttfb")
          /\ total_time_data[p] =
                ClaimedSample(ProviderEntries(generation_logs, p), "total_time")

(***************************************************************************)
(* C3: only success entries contribute a timing value: every value of       *)
(* latency_data, total_time_data and latency_by_language, and every value   *)
(* of the rating interface's latency lookup, is a time of a success entry   *)
(* of that provider (and, in the lookup, of that test), whenever the logs   *)
(* are well formed.  The code violates it.                                  *)
(***************************************************************************)
C3_OnlySuccessEntriesContribute ==
    WellFormedFiles(logFiles) => \A p \in ProviderSet :
        /\ \A v \in Range(latency_data[p]) \cup Range(total_time_data[p]) :
              \E e \in SuccessEntries(generation_logs, p) :
                  \E k \in DOMAIN e \cap TimeKeys : e[k] = v
        /\ \A l \in DOMAIN latency_by_language :
              \A v \in Range(latency_by_language[l][p]) :
                  \E e \in SuccessEntries(generation_logs, p) :
                      \E k \in DOMAIN e \cap TimeKeys : e[k] = v
        /\ \A id \in DOMAIN ui_latency_data[p] :
              \E e \in SuccessEntries(ValidFiles(logFiles), p) :
                  /\ e.test_id = id
                  /\ Get(e, "generation_time") = ui_latency_data[p][id]

(***************************************************************************)
(* C4: a malformed entry is skipped: extract_latency_data never raises      *)
(* because of it, and the samples equal those of the same logs without the  *)
(* malformed entries.  The code violates it.                                *)
(***************************************************************************)
C4_MalformedEntrySkipped ==
    /\ exc \notin {"KeyError: 'status'", "AttributeError: startswith"}
    /\ PastExtract =>
          LET x == extract_latency_data(CleanLogs(generation_logs))
          IN  /\ latency_data = x.latency_data
              /\ total_time_data = x.total_time_data
              /\ latency_by_language = x.latency_by_language

(***************************************************************************)
(* C5: a file json.load rejects is skipped by load_data: no exception       *)
(* leaves load_data and every other file is loaded.  The code violates it.  *)
(***************************************************************************)
C5_InvalidFileSkipped ==
    /\ exc # "JSONDecodeError"
    /\ PastLoad => generation_logs = ValidFiles(logFiles)

(***************************************************************************)
(* C6: with well-formed logs and a readable evaluations file, when there    *)
(* is no log file or a provider has no success entry with a time,           *)
(* LatencyAnalyzer.run_analysis raises nothing in any of its stages.  The   *)
(* code violates it.                                                        *)
(***************************************************************************)
C6_MissingInputCompletes ==
    (/\ pc \in LaPcs
     /\ WellFormedFiles(logFiles)
     /\ ~json_load_raises(evalFile)
     /\ \/ logFiles = <<>>
        \/ \E p \in ProviderSet :
              \A e \in SuccessEntries(logFiles, p) :
                  \A k \in DOMAIN e \cap TimeKeys : ~Truthy(e[k]))
    => exc = "none"

(***************************************************************************)
(* C7: with zero evaluations, PerformanceAnalyzer.run_analysis and          *)
(* generate_markdown_report raise nothing, render no table, and end with a  *)
(* message.  The code violates it.                                          *)
(***************************************************************************)
C7_ZeroEvaluationsShortCircuit ==
    (/\ pc \in PaPcs \cup RepPcs
     /\ WellFormedFiles(logFiles)
     /\ \/ "missing" \in DOMAIN evalFile
        \/ ("records" \in DOMAIN evalFile /\ evalFile.records = <<>>))
    => /\ exc = "none"
       /\ out \subseteq {<<"pa", "no_evaluations">>, <<"rep", "no_evaluations">>}
       /\ pc \in {"pa_done", "rep_done"} => out # {}

(***************************************************************************)
(* C8: the standard deviation of a single observation is reported as 0 and  *)
(* never raises, in compute_statistics and wherever a standard deviation    *)
(* of quality scores is printed.  The code violates it.                     *)
(***************************************************************************)
C8_SingleObservationStdevZero ==
    /\ exc # "StatisticsError: stdev"
    /\ \A p \in ProviderSet :
          (Computed(StatsOf(p)) /\ Len(latency_data[p]) = 1)
              => StatsOf(p).stdev = Rat(0, 1)

(***************************************************************************)
(* C9: compute_statistics returns an empty result, with no key at all, on   *)
(* an empty sample, and a result with count, mean, median, stdev, min and   *)
(* max on every other sample.                                               *)
(***************************************************************************)
C9_EmptyResultOnEmptySample ==
    \A p \in ProviderSet :
        Computed(StatsOf(p)) =>
            /\ latency_data[p] = <<>> => DOMAIN StatsOf(p) = {}
            /\ latency_data[p] # <<>> =>
                  /\ StatKeys \subseteq DOMAIN StatsOf(p)
                  /\ StatsOf(p).count = Len(latency_data[p])

\* statistics were computed on an empty and on a non-empty sample
C9_Witness ==
    /\ Computed(cart_stats) /\ Computed(elev_stats)
    /\ latency_data["cartesia"] = <<>> /\ DOMAIN cart_stats = {}
    /\ latency_data["elevenlabs"] # <<>> /\ elev_stats.count >= 1

(***************************************************************************)
(* C10: p25 and p75 are present exactly when the sample has at least 4      *)
(* values, and a quartile is handed to a format specification only for a    *)
(* provider whose sample has at least 4 values.  The code violates it.      *)
(***************************************************************************)
C10_QuartilesFormattedOnlyWhenPresent ==
    /\ \A p \in ProviderSet :
          (Computed(StatsOf(p)) /\ DOMAIN StatsOf(p) # {}) =>
              /\ ~IsNone(StatsOf(p).p25) <=> Len(latency_data[p]) >= 4
              /\ ~IsNone(StatsOf(p).p75) <=> Len(latency_data[p]) >= 4
    /\ \A f \in formatted : Len(latency_data[f[3]]) >= 4

(***************************************************************************)
(* C11: for every non-empty sample, the result of compute_statistics has    *)
(* min <= median <= max and min <= mean <= max, and its count is the number *)
(* of values of the sample.                                                 *)
(***************************************************************************)
C11_StatisticsOrdered ==
    \A p \in ProviderSet :
        (Computed(StatsOf(p)) /\ DOMAIN StatsOf(p) # {}) =>
            LET s == StatsOf(p)
            IN  /\ s.min * s.median.den <= s.median.num
                /\ s.median.num <= s.max * s.median.den
                /\ s.min * s.mean.den <= s.mean.num
                /\ s.mean.num <= s.max * s.mean.den
                /\ s.count = Len(latency_data[p])

\* statistics of a sample of at least two values that are not all equal
C11_Witness ==
    \E p \in ProviderSet :
        /\ Computed(StatsOf(p)) /\ DOMAIN StatsOf(p) # {}
        /\ StatsOf(p).count >= 2
        /\ StatsOf(p).min < StatsOf(p).max

\* the correlation computed for a provider and the pairs it was computed on
CorrOf(p) == IF p = "cartesia" THEN cart_corr ELSE elev_corr
DataOf(p) == IF p = "cartesia" THEN cart_data ELSE elev_data

\* all values of a sequence are equal
Constant(s) == \A i, j \in DOMAIN s : s[i] = s[j]

\* correlate_latency_quality, and the correlation section of the report,
\* have returned
PastLaCorrelate == pc \in {"la_summary", "la_done"}
PastRepCorrelation ==
    pc \in {"rep_quality", "rep_english", "rep_finish", "rep_done"}

(***************************************************************************)
(* C12: pearson_correlation returns 0 on fewer than 2 pairs, on pairs whose *)
(* x values are all equal and on pairs whose y values are all equal, and    *)
(* never divides by zero: the denominator of every correlation computed is  *)
(* not zero.                                                                *)
(***************************************************************************)
C12_PearsonZeroOnDegenerateInput ==
    \A p \in ProviderSet :
        Computed(CorrOf(p)) =>
            /\ CorrOf(p).den # 0
            /\ (\/ Len(DataOf(p)) < 2
                \/ Constant(Latencies(DataOf(p)))
                \/ Constant(Qualities(DataOf(p))))
               => CorrOf(p).num = 0

\* a correlation of 0 computed on two or more pairs of equal latency and
\* different quality
C12_Witness ==
    /\ Computed(cart_corr)
    /\ Len(cart_data) >= 2
    /\ Constant(Latencies(cart_data))
    /\ ~Constant(Qualities(cart_data))
    /\ cart_corr.num = 0

\* the latency of a record for a provider as the resolution rule states it:
\* the TTFB-suffixed key when present, the legacy key otherwise
ClaimedLatency(eval_item, provider) ==
    LET block == IF "latency" \in DOMAIN eval_item THEN eval_item.latency
                 ELSE EmptyDict
        suffixed == IF provider = "cartesia" THEN "cartesia_ttfb"
                    ELSE "elevenlabs_ttfb"
    IN  IF suffixed \in DOMAIN block THEN block[suffixed]
        ELSE Get(block, provider)

IsNumber(v) == v # None /\ v # NotNumber

\* the evaluations that have a numeric latency and an average_score
Qualifying(evals, provider) ==
    SelectSeq(evals, LAMBDA e : /\ IsNumber(ClaimedLatency(e, provider))
                                /\ ~IsNone(Quality(e, provider)))

(***************************************************************************)
(* C15: the pairs correlate_latency_quality builds for a provider hold one  *)
(* pair for every evaluation that has a numeric latency and an              *)
(* average_score for the provider, whatever the values, and none for any    *)
(* other evaluation.  The code violates it.                                 *)
(***************************************************************************)
C15_PairForEveryNumericLatency ==
    (PastLaCorrelate /\ evaluations # <<>>) =>
        \A p \in ProviderSet :
            LET q == Qualifying(evaluations, p)
            IN  /\ Len(DataOf(p)) = Len(q)
                /\ \A i \in DOMAIN q : DataOf(p)[i].quality = Quality(q[i], p)

(***************************************************************************)
(* C16: the latency of every correlation pair is the value under the        *)
(* TTFB-suffixed key of its record when the key is present and the value    *)
(* under the legacy key otherwise, and the Markdown report builds the pairs *)
(* the console analyzer builds from the same evaluations.  The code         *)
(* violates it.                                                             *)
(***************************************************************************)
C16_SameLatencyResolution ==
    /\ PastLaCorrelate =>
          \A p \in ProviderSet : \A i \in DOMAIN DataOf(p) :
              \E e \in Range(evaluations) :
                  /\ DataOf(p)[i].latency = ClaimedLatency(e, p)
                  /\ DataOf(p)[i].quality = Quality(e, p)
    /\ PastRepCorrelation =>
          \A p \in ProviderSet : DataOf(p) = AnalyzerPairs(pa_evaluations, p)

(***************************************************************************)
(* C17: every correlation r printed by correlate_latency_quality gets       *)
(* exactly one strength label, decided by |r|: weak when |r| < 0.3,         *)
(* moderate when 0.3 <= |r| < 0.7, strong when |r| >= 0.7, so that r and -r *)
(* get the same label.                                                      *)
(***************************************************************************)
C17_StrengthLabelByMagnitude ==
    PastLaCorrelate =>
        \A p \in ProviderSet :
            LET labels == {t \in out : t[1] = "corr_strength" /\ t[2] = p}
                r == CorrOf(p)
            IN  IF ~Computed(r) THEN labels = {}
                ELSE /\ Cardinality(labels) = 1
                     /\ \A t \in labels :
                           /\ t[3] = "weak" <=> 100 * r.num * r.num < 9 * r.den
                           /\ t[3] = "moderate" <=>
                                 /\ 100 * r.num * r.num >= 9 * r.den
                                 /\ 100 * r.num * r.num < 49 * r.den
                           /\ t[3] = "strong" <=>
                                 100 * r.num * r.num >= 49 * r.den

\* a negative correlation of magnitude 0.7 or more labelled strong
C17_Witness ==
    /\ PastLaCorrelate
    /\ Computed(cart_corr)
    /\ cart_corr.num < 0
    /\ <<"corr_strength", "cartesia", "strong">> \in out

\* a provider named as the faster one is named rightly for the samples c of
\* Cartesia and e of ElevenLabs: ElevenLabs only when mean(c) / mean(e) > 1,
\* Cartesia only when mean(c) < mean(e)
RightlyNamed(name, c, e) ==
    /\ name = "ElevenLabs" => Sum(c) * Len(e) > Sum(e) * Len(c)
    /\ name = "Cartesia" => Sum(c) * Len(e) < Sum(e) * Len(c)

(***************************************************************************)
(* C13: wherever a section names the faster provider from the ratio         *)
(* mean(cartesia) / mean(elevenlabs), it names ElevenLabs only when the     *)
(* ratio is above 1 and Cartesia only when Cartesia's mean is the smaller   *)
(* one: the console TTFB and total-time comparisons, the per-language       *)
(* lines, the executive summary and the speedup lines of the Markdown       *)
(* report.  The code violates it.                                           *)
(***************************************************************************)
C13_FasterProviderNamedRightly ==
    \A t \in out :
        /\ (Len(t) = 3 /\ t[1] = "la" /\ t[2] = "faster") =>
              RightlyNamed(t[3], latency_data["cartesia"],
                           latency_data["elevenlabs"])
        /\ (Len(t) = 3 /\ t[1] = "la" /\ t[2] = "total_faster") =>
              RightlyNamed(t[3], total_time_data["cartesia"],
                           total_time_data["elevenlabs"])
        /\ (Len(t) = 3 /\ t[1] \in {"lang_faster", "summary_lang"}) =>
              RightlyNamed(t[3], latency_by_language[t[2]]["cartesia"],
                           latency_by_language[t[2]]["elevenlabs"])
        /\ (Len(t) = 3 /\ t[1] = "summary" /\ t[2] = "ttfb") =>
              RightlyNamed(t[3], latency_data["cartesia"],
                           latency_data["elevenlabs"])
        /\ (Len(t) = 3 /\ t[1] = "rep" /\ t[2] = "speedup_faster") =>
              RightlyNamed(t[3], latency_data["cartesia"],
                           latency_data["elevenlabs"])
        /\ (Len(t) = 2 /\ t[1] = "rep_summary_faster") =>
              RightlyNamed(t[2], latency_data["cartesia"],
                           latency_data["elevenlabs"])

(***************************************************************************)
(* C14: a provider is named more consistent only when its coefficient of    *)
(* variation is below 0.9 times the other provider's, and the providers are *)
(* reported as similar when neither is: in the console comparison, in the   *)
(* executive summary and in the Markdown report.  The code violates it.     *)
(***************************************************************************)
C14_MoreConsistentNeedsTenPercent ==
    \A t \in out :
        (Len(t) = 3 /\ t[1] \in {"la", "summary", "rep"}
                    /\ t[2] = "more_consistent") =>
            LET cs == compute_statistics(latency_data["cartesia"])
                es == compute_statistics(latency_data["elevenlabs"])
            IN  /\ t[3] = "Cartesia" => CvLess(cs, es, 9)
                /\ t[3] = "ElevenLabs" => CvLess(es, cs, 9)
                /\ t[3] = "similar" => ~CvLess(cs, es, 9) /\ ~CvLess(es, cs, 9)

\* the winner the criteria tables are to show: the means are the sums over
\* n = Len(evals), and a difference of the means above 0.1 is a difference
\* of the sums above n / 10
WinnerNames == {"Cartesia", "ElevenLabs", "Tie"}
DeadZoneWinner(evals, c) ==
    LET d == Sum(CriterionScores(evals, "cartesia", c))
             - Sum(CriterionScores(evals, "elevenlabs", c))
    IN  IF 10 * d > Len(evals) THEN "Cartesia"
        ELSE IF 10 * d < -Len(evals) THEN "ElevenLabs"
        ELSE "Tie"

\* every row of a criteria table shows the winner of the 0.1 dead zone
TableUsesDeadZone(done, tag) ==
    done \in out =>
        \A c \in CriteriaSet : \A w \in WinnerNames :
            <<tag, c, w>> \in out <=> w = DeadZoneWinner(pa_evaluations, c)

\* the lines that name a criterion as a provider's strength
StrengthTags == {"pa_insight", "pa_stronger", "rep_strength"}

\* C18: for each of the five criteria the console table and the report table
\* show Cartesia when mean(cartesia) - mean(elevenlabs) > 0.1, ElevenLabs when
\* the difference is below -0.1 and Tie otherwise, and every line of the
\* console or of the report that names a criterion as a provider's strength
\* names the winner of that criterion.
C18_CriterionWinnerDeadZone ==
    /\ TableUsesDeadZone(<<"pa", "criteria">>, "pa_criterion_winner")
    /\ TableUsesDeadZone(<<"rep", "criteria">>, "rep_criterion_winner")
    /\ \A t \in out :
          (Len(t) = 3 /\ t[1] \in StrengthTags) =>
              t[3] = DeadZoneWinner(pa_evaluations, t[2])

\* C19/C20 vocabulary: the evaluations of a category with a given winner
WinCount(evals, cat, k) ==
    Cardinality({i \in DOMAIN evals :
                    evals[i].category = cat /\ evals[i].comparison.winner = k})
CategoriesOf(evals) == {evals[i].category : i \in DOMAIN evals}
MajorityWinner(evals, cat) ==
    IF WinCount(evals, cat, "Cartesia") > WinCount(evals, cat, "Eleven Labs")
    THEN "Cartesia"
    ELSE IF WinCount(evals, cat, "Eleven Labs")
            > WinCount(evals, cat, "Cartesia")
    THEN "ElevenLabs"
    ELSE "Tie"
CategoryTableDone(done) == done \in out
CategoryRowsByTally(done, tag) ==
    CategoryTableDone(done) =>
        \A cat \in CategoriesOf(pa_evaluations) : \A w \in WinnerNames :
            <<tag, cat, w>> \in out
                <=> w = MajorityWinner(pa_evaluations, cat)

HigherMeanFewerWins(cat) ==
    /\ cat \in DOMAIN by_category
    /\ Sum(by_category[cat].cartesia) > Sum(by_category[cat].elevenlabs)
    /\ WinCount(pa_evaluations, cat, "Cartesia")
          < WinCount(pa_evaluations, cat, "Eleven Labs")
OutcomeCount(evals, k) ==
    Cardinality({i \in DOMAIN evals : evals[i].comparison.winner = k})
\* the counts of one outcome in the tallies of a set of categories, added up
RECURSIVE CategorySum(_, _)
CategorySum(S, k) ==
    IF S = {} THEN 0
    ELSE LET cat == CHOOSE y \in S : TRUE
         IN  by_category[cat].wins[k] + CategorySum(S \ {cat}, k)

\* C20: once the head-to-head tally is computed, each of its three counts is
\* the number of loaded evaluations with that comparison.winner, the counts
\* add up to the number of loaded evaluations, which is the total, each
\* percentage is 100 * count / total, and once the per-category tallies are
\* computed they add up, for each outcome, to the global count.
C20_HeadToHeadTally ==
    Computed(wins) =>
        /\ \A k \in Outcomes : wins[k] = OutcomeCount(pa_evaluations, k)
        /\ wins["Cartesia"] + wins["Eleven Labs"] + wins["Tie"]
              = Len(pa_evaluations)
        /\ total = Len(pa_evaluations)
        /\ \A k \in Outcomes :
              win_pct[k] = Rat(100 * OutcomeCount(pa_evaluations, k),
                               Len(pa_evaluations))
        /\ Computed(by_category) =>
              \A k \in Outcomes :
                  CategorySum(DOMAIN by_category, k) = wins[k]

\* a tally with every outcome, over two categories
C20_Witness ==
    /\ pc \in {"pa_done", "rep_done"}
    /\ Computed(wins)
    /\ Computed(by_category)
    /\ \A k \in Outcomes : wins[k] >= 1
    /\ Cardinality(DOMAIN by_category) = 2
    /\ total = MaxEvals

\* analyze_by_language, and the report's TTFB by language table, are done
PastLaLanguage == pc \in {"la_correlate", "la_summary", "la_done"}
PastRepLanguage == pc \in {"rep_correlation", "rep_quality", "rep_english",
                           "rep_finish", "rep_done"}

\* C21: once the per-language breakdown is printed, it has a heading for each
\* of en, de, zh and ja and under it one line for each provider, statistics
\* or "No data"; once the report's TTFB by language table is written, it has
\* a row for each of the four languages.
C21_EveryLanguageRendered ==
    /\ PastLaLanguage =>
          \A l \in KnownLanguages :
              /\ <<"lang", l>> \in out
              /\ \A p \in ProviderSet :
                    <<"lang_stats", l, p>> \in out
                    \/ <<"lang_nodata", l, p>> \in out
    /\ PastRepLanguage =>
          \A l \in KnownLanguages : <<"rep_lang", l>> \in out

\* the number of values of one provider in the buckets of a set of languages
RECURSIVE BucketSum(_, _)
BucketSum(S, p) ==
    IF S = {} THEN 0
    ELSE LET l == CHOOSE y \in S : TRUE
         IN  Len(latency_by_language[l][p]) + BucketSum(S \ {l}, p)

LanguageCodes == KnownLanguages \cup {"unknown"}

\* C27: once extract_latency_data has returned, the buckets of
\* latency_by_language are keyed by en, de, zh, ja or unknown, for each
\* provider the bucket sizes add up to the size of latency_data[provider],
\* every bucket holds only values of latency_data[provider], and no bucket
\* has both provider lists empty.
C27_LanguageBucketsPartition ==
    (PastExtract /\ exc = "none") =>
        /\ DOMAIN latency_by_language \subseteq LanguageCodes
        /\ \A p \in ProviderSet :
              /\ BucketSum(DOMAIN latency_by_language, p)
                    = Len(latency_data[p])
              /\ \A l \in DOMAIN latency_by_language :
                    Range(latency_by_language[l][p])
                        \subseteq Range(latency_data[p])
        /\ \A l \in DOMAIN latency_by_language :
              latency_by_language[l]["cartesia"] # <<>>
              \/ latency_by_language[l]["elevenlabs"] # <<>>

\* values of a known language and of an unknown prefix were both extracted
C27_Witness ==
    /\ PastExtract
    /\ exc = "none"
    /\ {"en", "unknown"} \subseteq DOMAIN latency_by_language
    /\ latency_by_language["unknown"]["cartesia"] # <<>>
    /\ latency_by_language["en"]["elevenlabs"] # <<>>
    /\ latency_by_language["unknown"]["elevenlabs"] = <<>>

\* the test ids of a list of records, and a list without a repeated test id
IdsOf(evals) == {evals[i].test_id : i \in DOMAIN evals}
NoDuplicateIds(evals) ==
    \A i, j \in DOMAIN evals : evals[i].test_id = evals[j].test_id => i = j

\* a step of the session that changes the list of evaluations: a save of the
\* displayed test
SaveStep == pc = "ui_run" /\ ui_evaluations' # ui_evaluations

\* C22: in a session whose list has no repeated test id, no step of the
\* interface drops a test id or repeats one; a save of a test id that has a
\* record keeps the length and the place of every test id, and a save of a
\* new test id appends one record of that test id and keeps the others.
C22_OneRecordPerTestId ==
    [][(pc = "ui_run" /\ NoDuplicateIds(ui_evaluations)) =>
          /\ NoDuplicateIds(ui_evaluations')
          /\ IdsOf(ui_evaluations) \subseteq IdsOf(ui_evaluations')
          /\ SaveStep =>
                IF display.test_id \in IdsOf(ui_evaluations)
                THEN /\ Len(ui_evaluations') = Len(ui_evaluations)
                     /\ \A i \in DOMAIN ui_evaluations :
                           ui_evaluations'[i].test_id
                               = ui_evaluations[i].test_id
                ELSE /\ Len(ui_evaluations') = Len(ui_evaluations) + 1
                     /\ SubSeq(ui_evaluations', 1, Len(ui_evaluations))
                           = ui_evaluations
                     /\ ui_evaluations'[Len(ui_evaluations')].test_id
                           = display.test_id]_vars

\* a record was replaced in a list of several records without repeated id
C22_Witness ==
    /\ pc = "ui_run"
    /\ save_status # <<>>
    /\ save_status[1] = "Updated"
    /\ NoDuplicateIds(ui_evaluations)
    /\ Len(ui_evaluations) >= 2
    /\ FormOf(ui_evaluations[FirstIndex(ui_evaluations, save_status[2])])
          = DefaultForm

\* the five criterion scores stored in one provider block of a record
StoredScores(block) == [i \in 1..5 |-> block[criteria[i]]]

\* average_score is the mean of the five stored scores and lies in [1, 5]
AverageIsMean(block) ==
    /\ block.average_score.den = 5
    /\ block.average_score.num = Sum(StoredScores(block))
    /\ block.average_score.num >= 1 * block.average_score.den
    /\ block.average_score.num <= 5 * block.average_score.den

\* C23: at every moment of a session, in every record of the list of
\* evaluations and of the evaluations file the interface wrote, the
\* average_score of each provider is the mean of the five criterion scores
\* stored next to it, and lies between 1 and 5.
C23_AverageScoreIsMean ==
    pc = "ui_run" =>
        /\ \A i \in DOMAIN ui_evaluations : \A p \in ProviderSet :
              AverageIsMean(ui_evaluations[i][p])
        /\ save_status # <<>> =>
              \A i \in DOMAIN evalFile.records : \A p \in ProviderSet :
                  AverageIsMean(evalFile.records[i][p])

\* a record was saved with the highest and the lowest average, and another
\* one with unequal scores, in place of an earlier record
C23_Witness ==
    /\ pc = "ui_run"
    /\ save_status # <<>>
    /\ save_status[1] = "Updated"
    /\ \E i, j \in DOMAIN ui_evaluations :
          /\ i # j
          /\ ui_evaluations[i]["cartesia"].average_score = Rat(25, 5)
          /\ ui_evaluations[i]["elevenlabs"].average_score = Rat(5, 5)
          /\ ui_evaluations[j].test_id = save_status[2]
          /\ ui_evaluations[j]["elevenlabs"].average_score = Rat(21, 5)

LoadFails(ef) ==
    /\ "missing" \notin DOMAIN ef
    /\ \/ json_load_raises(ef)
       \/ \E i \in DOMAIN ef.records : "test_id" \notin DOMAIN ef.records[i]

\* the interface was constructed
PastUiInit == pc \in {"ui_launch", "ui_run", "ui_done"}

\* C28: once the interface is constructed, and after every save and every
\* navigation, evaluated_test_ids is the set of the test ids of the records
\* in the list of evaluations; after a load that failed both are empty.
C28_EvaluatedIdsMatchRecords ==
    PastUiInit =>
        /\ \A i \in DOMAIN ui_evaluations :
              "test_id" \in DOMAIN ui_evaluations[i]
        /\ evaluated_test_ids = IdsOf(ui_evaluations)
        /\ (pc = "ui_launch" /\ LoadFails(evalFile)) =>
              ui_evaluations = <<>> /\ evaluated_test_ids = {}

\* the load failed after json.load had returned the records
C28_Witness ==
    /\ pc = "ui_launch"
    /\ evalFile = NoIdFile
    /\ ui_evaluations = <<>>
    /\ evaluated_test_ids = {}

\* the indices of the test cases that have no evaluation yet
Unevaluated ==
    {i \in 0..(Len(test_cases) - 1) :
        test_cases[i + 1].test_id \notin evaluated_test_ids}
LeastOf(S) == CHOOSE i \in S : \A j \in S : i <= j
LastTest == Len(test_cases) - 1
IndexInRange(i) == 0 <= i /\ i <= LastTest

\* what each handler may do to current_index
NavigationRules ==
    /\ next_test =>
          current_index' = IF current_index = LastTest THEN current_index
                           ELSE current_index + 1
    /\ previous_test =>
          current_index' = IF current_index = 0 THEN 0 ELSE current_index - 1
    /\ save_and_next =>
          current_index' = IF current_index = LastTest THEN current_index
                           ELSE current_index + 1
    /\ jump_to_test =>
          \/ current_index' = current_index
          \/ current_index' = LeastOf({i \in 0..LastTest :
                                         test_cases[i + 1].test_id
                                             = display'.test_id})
    /\ jump_to_unevaluated =>
          current_index' =
              IF \E i \in Unevaluated : i >= current_index
              THEN LeastOf({i \in Unevaluated : i >= current_index})
              ELSE IF Unevaluated # {} THEN LeastOf(Unevaluated)
              ELSE current_index

RECURSIVE LastSeen(_)
LastSeen(evals) ==
    IF evals = <<>> THEN <<>>
    ELSE IF \E i \in DOMAIN Tail(evals) :
                Tail(evals)[i].test_id = Head(evals).test_id
         THEN LastSeen(Tail(evals))
         ELSE <<Head(evals)>> \o LastSeen(Tail(evals))

\* C26: a test id that occurs several times in the evaluations file counts
\* once, with its last record: the head-to-head tally and its total, the
\* per-category scores and the correlation pairs are those of the last
\* records, and the rating interface fills the form of an evaluated test
\* from the last record of its test id.
C26_LastRecordPerTestId ==
    /\ Computed(wins) =>
          /\ \A k \in Outcomes :
                wins[k] = OutcomeCount(LastSeen(pa_evaluations), k)
          /\ total = Len(LastSeen(pa_evaluations))
    /\ Computed(by_category) =>
          by_category = ByCategory(LastSeen(pa_evaluations))
    /\ PastLaCorrelate =>
          /\ cart_data = AnalyzerPairs(LastSeen(evaluations), "cartesia")
          /\ elev_data = AnalyzerPairs(LastSeen(evaluations), "elevenlabs")
    /\ (pc = "ui_run" /\ display.done) =>
          display.form
              = FormOf(ui_evaluations[LastIndex(ui_evaluations,
                                                display.test_id)])

\* the runs of generate_all that have returned
Runs == Len(returned)

\* no step rewrites or removes a generation log that exists
EarlierLogsKept ==
    \A stamp \in DOMAIN generation_log_files :
        /\ stamp \in DOMAIN generation_log_files'
        /\ generation_log_files'[stamp] = generation_log_files[stamp]

\* C25: every run of generate_all writes its log to a new file: there are
\* as many generation log files as runs, and no step changes the content of
\* a file an earlier run wrote.
C25_NewLogFilePerRun ==
    /\ [](Cardinality(DOMAIN generation_log_files) = Runs)
    /\ [][EarlierLogsKept]_vars

\* <<t, p>> comes before the position pos of the loops
Before(a, pos) == a[1] < pos[1] \/ (a[1] = pos[1] /\ a[2] < pos[2])

\* the attempts of the running or last run so far: the passes of the loops
\* over test cases and providers in which the provider has a voice id
Attempts ==
    LET tests == AllTestCases(gen_args.languages)
    IN  {a \in (1..Len(tests)) \X (1..Len(gen_args.providers)) :
            /\ Before(a, position)
            /\ HasVoice(gen_args.providers[a[2]], tests[a[1]].language)}

AttemptsOf(provider) == {a \in Attempts : gen_args.providers[a[2]] = provider}

\* the counters add up to the attempts, and every provider has one result
\* for each attempt that did not raise
CountersMatchAttempts ==
    /\ results.summary.successful + results.summary.skipped
           + results.summary.failed = Cardinality(Attempts)
    /\ \A provider \in ProviderSet :
           Len(results[provider]) + raised[provider]
               = Cardinality(AttemptsOf(provider))

SuccessRateInUnitInterval ==
    "success_rate" \in DOMAIN results.summary
        => /\ results.summary.success_rate.den > 0
           /\ 0 <= results.summary.success_rate.num
           /\ results.summary.success_rate.num
                  <= results.summary.success_rate.den

\* the pass of the loops at the current position is an attempt
AttemptNow ==
    HasVoice(gen_args.providers[position[2]],
             AllTestCases(gen_args.languages)[position[1]].language)

\* the output file of the attempt at the current position exists
FileExistsNow ==
    ExpectedFileExists(audio_files, gen_args.providers[position[2]],
                       AllTestCases(gen_args.languages)[position[1]].test_id)

\* what one attempt does to the counters and to the number of API calls
AttemptRule ==
    LET old == results.summary
        new == results'.summary
    IN  /\ <<new.successful - old.successful, new.skipped - old.skipped,
             new.failed - old.failed>>
               \in {<<1, 0, 0>>, <<0, 1, 0>>, <<0, 0, 1>>}
        /\ gen_args.skip_existing /\ FileExistsNow
               => /\ new.skipped = old.skipped + 1
                  /\ api_calls' = api_calls

\* C30: in generate_all every attempt increments exactly one of successful,
\* skipped and failed, so the three add up to the number of attempts; an
\* attempt whose output file exists, with skip_existing, counts as skipped
\* and calls no provider API; results[provider] has one entry per attempt of
\* the provider that did not raise; success_rate is between 0 and 1.
C30_AttemptsCounted ==
    /\ [](Computed(results)
              => CountersMatchAttempts /\ SuccessRateInUnitInterval)
    /\ [][generate_all_attempt /\ AttemptNow => AttemptRule]_vars

\* a second run has returned: its first attempt was skipped without an API
\* call, its second one raised, and the run before had a success
C30_Witness ==
    /\ pc = "gen_idle"
    /\ Len(returned) = 2
    /\ returned[1].summary.successful = 1
    /\ results.summary.skipped = 1
    /\ raised["elevenlabs"] = 1
    /\ Len(results["elevenlabs"]) = 0
    /\ results.summary.success_rate = Rat(0, 2)
    /\ api_calls = 2

====
